---- MODULE Spec2Model ----
(* Feedback board of the agentcost dashboard (FeedbackPage): the upvote    *)
(* coordinator, the list/summary synchroniser, the filter / debounced      *)
(* search / pagination controller, the comment threads and the submission  *)
(* dialog, with the REST server as environment.                            *)
EXTENDS Bags, FiniteSets, Integers, Sequences, TLC

VARIABLES
    user,             \* useAuth().user is present
    items,            \* displayed list: item id -> [user_has_upvoted, upvotes]
    listTotal,
    shownStatus,      \* history: the status filter of the response on display
    isLoading,
    summary,
    typeFilter, statusFilter, priorityFilter, sortBy,
    searchInput,      \* live search text
    searchValue,      \* committed search text
    page,
    upvoteLoadingId,
    toasts, toastId,
    toastTimers,      \* armed removal timeouts: toast id -> ms elapsed
    debounce,         \* the pending window.setTimeout of the debounce effect
    listReqs,         \* api.listFeedback calls in flight (a bag)
    summaryReqs,      \* api.getFeedbackSummary calls in flight
    voteReqs,         \* api.toggleFeedbackUpvote calls in flight (a bag)
    server,           \* the server's items: id -> [user_has_upvoted, upvotes]
    serverTotal,      \* the server's count of matching items
    lastControl,      \* the kind of control the user operated last
    expandedId,
    commentsById,     \* comment cache: item id -> NULL (no entry) or a list
    commentDrafts,    \* item id -> draft text
    commentLoadingId,
    commentReqs,      \* api.getFeedbackComments / addFeedbackComment calls
                      \* in flight (a bag)
    serverComments,   \* the server's comments: item id -> list
    expandedOnce,     \* history: the items whose thread was ever expanded
    showModal,
    modalType,
    isSubmitting,
    submitError,
    form,             \* the state of the mounted SubmitFeedbackModal
    createReqs,       \* api.createFeedback calls in flight (a bag)
    submitAwait,      \* what handleSubmitFeedback is awaiting
    pending,          \* FileUpload: the pending records
    error,            \* FileUpload: the error shown
    uploads,          \* uploadFiles calls awaiting Promise.allSettled
    purgeTimers,      \* the armed clean-up timeouts of FileUpload (a bag
                      \* of the milliseconds elapsed)
    pickerOpen,       \* the browser's file chooser is open
    uploadCall,       \* history: the files of the last uploadFiles call,
                      \* and the parity of the number of calls
    sessions,         \* AccountPage: the displayed session list
    profile,          \* AccountPage: the profile, or NULL
    editName,
    loading,
    accountMessage,   \* AccountPage: message, the banner or NULL
    messageTimers,    \* the armed timeouts of showMessage (a bag of the
                      \* milliseconds elapsed)
    profileReqs,      \* fetchProfile calls in flight
    revokeReqs,       \* api.revokeSession calls in flight (a bag), each
                      \* with the sessions of the render of its click
    serverSessions,   \* the server's sessions of the user
    revoked           \* history: the sessions whose revoke call succeeded

discussionVars == <<expandedId, commentsById, commentDrafts, commentLoadingId,
                    commentReqs, serverComments, expandedOnce>>
modalVars == <<showModal, modalType, isSubmitting, submitError, form,
               createReqs, submitAwait>>

uploadVars == <<pending, error, uploads, purgeTimers, pickerOpen, uploadCall>>
accountVars == <<sessions, profile, editName, loading, accountMessage,
                 messageTimers, profileReqs, revokeReqs, serverSessions,
                 revoked>>

vars == <<user, items, listTotal, shownStatus, isLoading, summary, typeFilter, statusFilter,
          priorityFilter, sortBy, searchInput, searchValue, page,
          upvoteLoadingId, toasts, toastId, toastTimers, debounce, listReqs, summaryReqs,
          voteReqs, server, serverTotal, lastControl, discussionVars,
          modalVars, uploadVars, accountVars>>

dataVars == <<items, listTotal, summary, shownStatus>>
filterVars == <<typeFilter, statusFilter, priorityFilter, sortBy>>
searchVars == <<searchInput, searchValue, debounce>>
toastVars == <<toasts, toastId, toastTimers>>
serverVars == <<server, serverTotal>>
actorVars == <<user, accountVars>>

(* ---------------------------------------------------------------------- *)
(* Bounds and program constants                                           *)
(* ---------------------------------------------------------------------- *)
MaxInFlight == 3    \* requests (list, summary, vote) in flight at once
MaxToasts == 1      \* toasts pushed in one session
MaxPages == 3       \* pages of items the server holds at most
MaxCreated == 2     \* items the server stores in one session
MaxNotices == 2     \* toasts pushed in one session with comments or the
                    \* submission dialog
MaxPending == 2     \* pending records of the uploader at once

PAGE_SIZE == 12
TITLE_MIN == 3
DESC_MIN == 10
DebounceMs == 400
ToastMs == 5000
ToastTickMs == ToastMs \div 2
TickMs == DebounceMs \div 2

NULL == "null"
ItemIds == {"a", "b"}
Alphabet == {" ", "x"}
TotalValues == {PAGE_SIZE + 1}
PageTotals == 0..(MaxPages * PAGE_SIZE)

(* the cache entry of an item whose comments were never stored; a stored  *)
(* list, even an empty one, is an entry                                   *)
NoEntry == [cached |-> FALSE, items |-> <<>>]
Entry(list) == [cached |-> TRUE, items |-> list]

(* the texts typed into a comment box: nothing, white space only, and a   *)
(* word after a blank                                                     *)
DraftTexts == {<<>>, <<" ">>, <<" ", "x">>}

(* the limits of FileUpload *)
ALLOWED_EXTENSIONS ==
    {<<".", "png">>, <<".", "jpg">>, <<".", "jpeg">>, <<".", "gif">>,
     <<".", "webp">>, <<".", "pdf">>, <<".", "txt">>, <<".", "log">>,
     <<".", "json">>, <<".", "csv">>}
MAX_FILE_SIZE == 10 * 1024 * 1024
MAX_FILES == 3
CleanupMs == 2000

(* a file name is the sequence of its dots and of the words between them; *)
(* the files picked: an image with an upper-case extension of the largest *)
(* size allowed, an executable behind an image extension that is also too *)
(* large, and a text file one byte too large                              *)
GoodFile == [name |-> <<"a", ".", "PNG">>, size |-> MAX_FILE_SIZE]
BadTypeFile ==
    [name |-> <<"a", ".", "png", ".", "exe">>, size |-> MAX_FILE_SIZE + 1]
TooBigFile == [name |-> <<"a", ".", "txt">>, size |-> MAX_FILE_SIZE + 1]
FileShapes == {GoodFile, BadTypeFile, TooBigFile}

(* the identities of the File objects of a session, and the File object  *)
(* id of a given name and size                                            *)
FileIds == <<"f1", "f2", "f3", "f4">>
File(id, shape) == [id |-> id, name |-> shape.name, size |-> shape.size]

(* the metadata of an uploaded file, as api.uploadAttachment returns it,  *)
(* and the attachment lists the form is given                             *)
UploadedMeta(file) ==
    [id |-> file.id, name |-> file.name, stored_name |-> file.id,
     type |-> "file", size |-> file.size, storage |-> "local",
     path |-> file.name]
AttachmentLists == {<<>>, <<UploadedMeta(File("f1", GoodFile))>>}

(* the metadata key of the form that the model follows: a field of the   *)
(* model_request type                                                     *)
MetaKeys == {"use_case"}

FormTypes == {"feature_request", "model_request", "bug_report"}
(* the options of the Environment select that are chosen here *)
EnvironmentChoices == {"", "development"}
(* failures of an API call, and the message parseApiError derives *)
ApiErrors == {[detail |-> "invalid"], [detail |-> "unavailable"]}
parseApiError(err) == err.detail

Repeat(c, n) == [k \in 1..n |-> c]

(* the texts typed into the submission form: a title and a description   *)
(* that reach the minimum length, and ones that reach it only with a     *)
(* trailing blank                                                        *)
TitleTexts == {Repeat("x", TITLE_MIN), Repeat("x", TITLE_MIN - 1) \o <<" ">>}
DescriptionTexts == {Repeat("x", DESC_MIN), Repeat("x", DESC_MIN - 1) \o <<" ">>}
(* a title and a description of the minimum length *)
ValidTitles == {Repeat("x", TITLE_MIN)}
ValidDescriptions == {Repeat("x", DESC_MIN)}
ModelNameTexts == {<<>>, <<" ">>}
ShortTexts == {<<>>, <<"x">>}

TypeOptions == {"all", "feature_request", "bug_report"}
StatusOptions == {"all", "open"}
PriorityOptions == {"all", "high"}
SortOptions == {"recent", "popular"}

(* the two QUICK_SUBMIT entries that carry a hintAction *)
QUICK_SUBMIT ==
    { [type |-> "bug_report", status |-> "open", sortBy |-> NULL],
      [type |-> "feature_request", status |-> NULL, sortBy |-> "popular"] }

(* ---------------------------------------------------------------------- *)
(* Pure helpers                                                           *)
(* ---------------------------------------------------------------------- *)
Max(a, b) == IF a >= b THEN a ELSE b
Min(a, b) == IF a <= b THEN a ELSE b

(* requests in flight are unordered: bags of request records *)
One(r) == SetToBag({r})
InFlight(reqs) == BagToSet(reqs)

(* the texts typed into the search box: empty, blank, not blank *)
Strings == {<<>>} \cup {<<c>> : c \in Alphabet}

RECURSIVE TrimStart(_)
TrimStart(s) ==
    IF s # <<>> /\ Head(s) = " " THEN TrimStart(Tail(s)) ELSE s

RECURSIVE TrimEnd(_)
TrimEnd(s) ==
    IF s # <<>> /\ s[Len(s)] = " " THEN TrimEnd(SubSeq(s, 1, Len(s) - 1)) ELSE s

(* String.prototype.trim *)
Trim(s) == TrimEnd(TrimStart(s))

totalPages_Floor == Max(1, listTotal \div PAGE_SIZE)

totalPages == Max(1, (listTotal + PAGE_SIZE - 1) \div PAGE_SIZE)

activeFilters ==
    (IF typeFilter # "all" THEN 1 ELSE 0)
    + (IF statusFilter # "all" THEN 1 ELSE 0)
    + (IF priorityFilter # "all" THEN 1 ELSE 0)
    + (IF searchValue # <<>> THEN 1 ELSE 0)

(* the dependencies of the fetchList callback *)
Query == <<typeFilter, statusFilter, priorityFilter, sortBy, searchValue, page>>

(* the server's own toggle of one item *)
ServerToggled(item) ==
    IF item.user_has_upvoted
    THEN [user_has_upvoted |-> FALSE,
          upvotes |-> IF item.upvotes > 0 THEN item.upvotes - 1 ELSE 0]
    ELSE [user_has_upvoted |-> TRUE, upvotes |-> item.upvotes + 1]

ToggledItem_NoFloor(item) ==
    LET toggled == ~item.user_has_upvoted
    IN  [user_has_upvoted |-> toggled,
         upvotes |-> IF toggled THEN item.upvotes + 1 ELSE item.upvotes - 1]

(* the optimistic patch of one item *)
ToggledItem(item) ==
    LET toggled == ~item.user_has_upvoted
    IN  [user_has_upvoted |-> toggled,
         upvotes |-> IF toggled THEN item.upvotes + 1
                     ELSE Max(0, item.upvotes - 1)]

OptimisticUpdate(prev, feedbackId) ==
    [id \in DOMAIN prev |->
        IF id # feedbackId THEN prev[id] ELSE ToggledItem(prev[id])]

NoActor_Never == FALSE

(* if (!user) *)
NoActor == ~user

(* the cards are rendered only when the list is not loading *)
CardShown(id) == ~isLoading /\ id \in DOMAIN items
UpvoteDisabled(id) == upvoteLoadingId = id

NoTimer == [pending |-> FALSE, value |-> <<>>, elapsed |-> 0]

DebounceEffect_NoRestart(oldInput, newInput, timer) ==
    IF newInput = oldInput THEN timer
    ELSE [pending |-> TRUE, value |-> newInput, elapsed |-> timer.elapsed]

DebounceEffect_NoCleanup(oldInput, newInput, timer) ==
    IF newInput = oldInput \/ timer.pending THEN timer
    ELSE [pending |-> TRUE, value |-> newInput, elapsed |-> 0]

(* the debounce effect: cleanup of the old timer, then a new timer, run  *)
(* whenever searchInput changed                                          *)
DebounceEffect(oldInput, newInput, timer) ==
    IF newInput = oldInput THEN timer
    ELSE [pending |-> TRUE, value |-> newInput, elapsed |-> 0]

(* the api.listFeedback call of the fetchList created with the status     *)
(* filter value; of its arguments the request records the status          *)
ListReqFor(value) ==
    [served |-> FALSE, items |-> <<>>, total |-> 0, status |-> value]

NewListReq == ListReqFor(statusFilter)

(* the list request of a fetchList call that a handler awaits *)
AwaitedListReq(who) ==
    [served |-> FALSE, items |-> <<>>, total |-> 0, status |-> statusFilter,
     awaiter |-> who]

(* the handler awaiting the fetchList call of request r, if any *)
Awaiter(r) == IF "awaiter" \in DOMAIN r THEN r.awaiter ELSE NULL

(* what listFeedback answers to request r from the server's current state *)
ListResponseTo(r) ==
    [r EXCEPT !.served = TRUE, !.items = server, !.total = serverTotal]

(* the getFeedbackSummary call that handleSubmitFeedback awaits *)
AwaitedSummaries == IF submitAwait = "summary" THEN 1 ELSE 0

(* the number of requests in flight, and whether n more can be issued *)
Requests ==
    BagCardinality(listReqs) + summaryReqs + BagCardinality(voteReqs)
    + BagCardinality(commentReqs) + BagCardinality(createReqs)
Room(n) == Requests + n <= MaxInFlight

(* ---------------------------------------------------------------------- *)
(* Shared pieces of handlers                                              *)
(* ---------------------------------------------------------------------- *)
(* setTimeout(..., 5000) of the toasts numbered after toastId up to last *)
Armed(timers, last) ==
    [id \in DOMAIN timers \cup (toastId + 1)..last |->
        IF id \in DOMAIN timers THEN timers[id] ELSE 0]

pushToast(message, variant) ==
    /\ toastId < MaxToasts
    /\ toastId' = toastId + 1
    /\ toastTimers' = Armed(toastTimers, toastId + 1)
    /\ toasts' = Append(toasts, [id |-> toastId + 1, message |-> message,
                                 variant |-> variant])

pushToastsUpTo_CountsQueue(limit, pushed) ==
    /\ toastId + Len(pushed) <= limit
    /\ toastId' = toastId + Len(pushed)
    /\ toastTimers' = Armed(toastTimers, toastId + Len(pushed))
    /\ toasts' = toasts \o [k \in 1..Len(pushed) |->
                                [id |-> Len(toasts) + k,
                                 message |-> pushed[k][1],
                                 variant |-> pushed[k][2]]]

(* pushToast called once for each <<message, variant>> of pushed, in order *)
pushToastsUpTo(limit, pushed) ==
    /\ toastId + Len(pushed) <= limit
    /\ toastId' = toastId + Len(pushed)
    /\ toastTimers' = Armed(toastTimers, toastId + Len(pushed))
    /\ toasts' = toasts \o [k \in 1..Len(pushed) |->
                                [id |-> toastId + k,
                                 message |-> pushed[k][1],
                                 variant |-> pushed[k][2]]]

(* fetchList up to its await: loading flag set, request issued for the    *)
(* status filter of the render that created the callback                  *)
fetchListFor(value) ==
    /\ isLoading' = TRUE
    /\ listReqs' = listReqs (+) One(ListReqFor(value))

(* fetchList as a handler calls it *)
fetchList == fetchListFor(statusFilter)

(* fetchSummary up to its await *)
fetchSummary ==
    /\ summaryReqs' = summaryReqs + 1

(* useEffect(() => { fetchList(); }, [fetchList]) *)
FetchListEffect ==
    IF Query' # Query THEN Room(1) /\ fetchListFor(statusFilter')
    ELSE UNCHANGED <<isLoading, listReqs>>

(* ---------------------------------------------------------------------- *)
(* Initial state: the page after mount (the mount effects have issued the *)
(* first list and summary fetch and armed the debounce timer)             *)
(* ---------------------------------------------------------------------- *)
(* the server's items at mount: one not upvoted with five votes, one      *)
(* upvoted whose count the server reports as zero                        *)
ServerItemsAtMount ==
    [id \in ItemIds |->
        IF id = "a" THEN [user_has_upvoted |-> FALSE, upvotes |-> 5]
        ELSE [user_has_upvoted |-> TRUE, upvotes |-> 0]]

(* the server's comments at mount: one item with a comment of another     *)
(* user, one item without comments                                        *)
CommentsAtMount ==
    [id \in ItemIds |->
        IF id = "a" THEN <<[comment |-> <<"x">>, mine |-> FALSE]>> ELSE <<>>]

(* the environment detected from the build's configuration (a            *)
(* development build whose API is not on localhost)                       *)
detectEnvironment == "development"

(* useState initialisers of SubmitFeedbackModal *)
MountedForm(type, userName, userEmail) ==
    [formType |-> type, title |-> <<>>, description |-> <<>>,
     modelName |-> <<>>, modelProvider |-> <<>>,
     name |-> userName, email |-> userEmail,
     meta |-> [key \in MetaKeys |-> <<>>], referenceUrl |-> <<>>,
     environment |-> detectEnvironment, fileAttachments |-> <<>>]

(* the value of form while the dialog is not mounted *)
NoForm == MountedForm("feature_request", <<>>, <<>>)

(* the discussion state after mount; the focus effect has expanded the    *)
(* item named by the feedback_id query parameter, if any                  *)
DiscussionAtMount(focusId) ==
    /\ expandedId = focusId
    /\ commentsById = [id \in ItemIds |-> NoEntry]
    /\ commentDrafts = [id \in ItemIds |-> <<>>]
    /\ commentLoadingId = NULL
    /\ commentReqs = EmptyBag
    /\ serverComments = CommentsAtMount
    /\ expandedOnce = IF focusId = NULL THEN {} ELSE {focusId}

ModalAtMount ==
    /\ showModal = FALSE
    /\ modalType = "feature_request"
    /\ isSubmitting = FALSE
    /\ submitError = NULL
    /\ form = NoForm
    /\ createReqs = EmptyBag
    /\ submitAwait = NULL

BoardAtMount(users, totals, types, statuses, priorities, sorts) ==
    /\ user \in users
    /\ items = <<>>
    /\ listTotal = 0
    /\ isLoading = TRUE
    /\ summary = NULL
    /\ typeFilter \in types
    /\ statusFilter \in statuses
    /\ priorityFilter \in priorities
    /\ sortBy \in sorts
    /\ searchInput = <<>>
    /\ searchValue = <<>>
    /\ page = 0
    /\ upvoteLoadingId = NULL
    /\ toasts = <<>>
    /\ toastId = 0
    /\ toastTimers = <<>>
    /\ debounce = [pending |-> TRUE, value |-> <<>>, elapsed |-> 0]
    /\ listReqs = One(NewListReq)
    /\ shownStatus = NULL
    /\ summaryReqs = 1
    /\ voteReqs = EmptyBag
    /\ server = ServerItemsAtMount
    /\ serverTotal \in totals
    /\ lastControl = "mount"

(* the account page is another route: while the feedback board is shown   *)
(* it is not mounted and none of its calls is in flight                    *)
NoSessions == <<>>

AccountState(list, busy, fetches, live) ==
    /\ sessions = list
    /\ profile = NULL
    /\ editName = <<>>
    /\ loading = busy
    /\ accountMessage = NULL
    /\ messageTimers = EmptyBag
    /\ profileReqs = fetches
    /\ revokeReqs = EmptyBag
    /\ serverSessions = live
    /\ revoked = {}

AccountNotMounted == AccountState(NoSessions, FALSE, 0, {})

(* useState initialisers of FileUpload; nothing is uploading while the    *)
(* dialog is not shown                                                    *)
NoUploadError == [kind |-> "none", about |-> <<>>]

UploaderAtMount ==
    /\ pending = <<>>
    /\ error = NoUploadError
    /\ uploads = {}
    /\ purgeTimers = EmptyBag
    /\ pickerOpen = FALSE
    /\ uploadCall = [shapes |-> <<>>, turn |-> 0]

(* FileUpload unmounts with the dialog: its state is dropped, and the     *)
(* uploads and timeouts it left behind update nothing                     *)
UploaderUnmounted ==
    /\ pending' = <<>>
    /\ error' = NoUploadError
    /\ uploads' = {}
    /\ purgeTimers' = EmptyBag
    /\ pickerOpen' = FALSE
    /\ UNCHANGED uploadCall

InitWith(users, totals, types, statuses, priorities, sorts) ==
    /\ BoardAtMount(users, totals, types, statuses, priorities, sorts)
    /\ DiscussionAtMount(NULL)
    /\ ModalAtMount
    /\ UploaderAtMount
    /\ AccountNotMounted

Init ==
    InitWith(BOOLEAN, TotalValues,
             TypeOptions, StatusOptions, PriorityOptions, SortOptions)

(* ---------------------------------------------------------------------- *)
(* Upvote coordinator                                                     *)
(* ---------------------------------------------------------------------- *)
NewVoteReq(feedbackId) == [id |-> feedbackId, applied |-> FALSE]

handleUpvote(feedbackId) ==
    /\ CardShown(feedbackId)
    /\ ~UpvoteDisabled(feedbackId)
    /\ IF NoActor
       THEN /\ pushToast("Sign in to upvote feedback.", "error")
            /\ UNCHANGED <<items, upvoteLoadingId, voteReqs>>
       ELSE /\ Room(1)
            /\ items' = OptimisticUpdate(items, feedbackId)
            /\ upvoteLoadingId' = feedbackId
            /\ voteReqs' = voteReqs (+) One(NewVoteReq(feedbackId))
            /\ UNCHANGED toastVars
    /\ UNCHANGED <<discussionVars, modalVars, uploadVars, actorVars, listTotal, shownStatus, isLoading, summary, filterVars, searchVars,
                   page, listReqs, summaryReqs, serverVars, lastControl>>

(* the server carries out a toggle request *)
serverToggle(r) ==
    /\ r \in InFlight(voteReqs)
    /\ ~r.applied
    /\ voteReqs' = (voteReqs (-) One(r)) (+) One([r EXCEPT !.applied = TRUE])
    /\ server' = [server EXCEPT ![r.id] = ServerToggled(@)]
    /\ UNCHANGED <<discussionVars, modalVars, uploadVars, actorVars, dataVars, isLoading, filterVars, searchVars, page,
                   upvoteLoadingId, toastVars, listReqs, summaryReqs,
                   serverTotal, lastControl>>

handleUpvoteResolved_NoFinally(r) ==
    /\ r \in InFlight(voteReqs)
    /\ r.applied
    /\ Room(1)
    /\ fetchList
    /\ fetchSummary
    /\ voteReqs' = voteReqs (-) One(r)
    /\ UNCHANGED <<discussionVars, modalVars, uploadVars, actorVars, dataVars, filterVars, searchVars, page, toastVars,
                   serverVars, lastControl, upvoteLoadingId>>

(* await api.toggleFeedbackUpvote resolved: try body, then finally *)
handleUpvoteResolved(r) ==
    /\ r \in InFlight(voteReqs)
    /\ r.applied
    /\ Room(1)
    /\ fetchList
    /\ fetchSummary
    /\ upvoteLoadingId' = NULL
    /\ voteReqs' = voteReqs (-) One(r)
    /\ UNCHANGED <<discussionVars, modalVars, uploadVars, actorVars, dataVars, filterVars, searchVars, page, toastVars,
                   serverVars, lastControl>>

handleUpvoteRejected_NoRefetch(r) ==
    /\ r \in InFlight(voteReqs)
    /\ pushToast("upvote_error", "error")
    /\ upvoteLoadingId' = NULL
    /\ voteReqs' = voteReqs (-) One(r)
    /\ UNCHANGED <<discussionVars, modalVars, uploadVars, actorVars, dataVars, filterVars, searchVars, page, summaryReqs,
                   serverVars, lastControl, isLoading, listReqs>>

(* await api.toggleFeedbackUpvote rejected: catch body, then finally *)
handleUpvoteRejected(r) ==
    /\ r \in InFlight(voteReqs)
    /\ pushToast("upvote_error", "error")
    /\ fetchList
    /\ upvoteLoadingId' = NULL
    /\ voteReqs' = voteReqs (-) One(r)
    /\ UNCHANGED <<discussionVars, modalVars, uploadVars, actorVars, dataVars, filterVars, searchVars, page, summaryReqs,
                   serverVars, lastControl>>

(* ---------------------------------------------------------------------- *)
(* List and summary synchroniser                                          *)
(* ---------------------------------------------------------------------- *)
(* the server answers a list request from its state at that moment *)
serverList(r) ==
    /\ r \in InFlight(listReqs)
    /\ ~r.served
    /\ listReqs' = (listReqs (-) One(r)) (+) One(ListResponseTo(r))
    /\ UNCHANGED <<discussionVars, modalVars, uploadVars, actorVars, dataVars, isLoading, filterVars, searchVars, page,
                   upvoteLoadingId, toastVars, summaryReqs, voteReqs,
                   serverVars, lastControl>>

fetchListResolved_KeepItems(r) ==
    /\ r \in InFlight(listReqs)
    /\ r.served
    /\ Awaiter(r) = NULL
    /\ listTotal' = r.total
    /\ shownStatus' = r.status
    /\ isLoading' = FALSE
    /\ listReqs' = listReqs (-) One(r)
    /\ UNCHANGED <<discussionVars, modalVars, uploadVars, actorVars, summary, filterVars, searchVars, page, upvoteLoadingId,
                   toastVars, summaryReqs, voteReqs, serverVars, lastControl,
                   items>>

fetchListResolved_LatestOnly(r) ==
    /\ r \in InFlight(listReqs)
    /\ r.served
    /\ Awaiter(r) = NULL
    /\ IF r.status = statusFilter
       THEN /\ items' = r.items
            /\ listTotal' = r.total
            /\ shownStatus' = r.status
            /\ isLoading' = FALSE
       ELSE UNCHANGED <<items, listTotal, shownStatus, isLoading>>
    /\ listReqs' = listReqs (-) One(r)
    /\ UNCHANGED <<discussionVars, modalVars, uploadVars, actorVars, summary, filterVars, searchVars, page, upvoteLoadingId,
                   toastVars, summaryReqs, voteReqs, serverVars, lastControl>>

(* await api.listFeedback resolved: setItems, setListTotal, then finally; *)
(* the response is stored whichever request it answers                    *)
fetchListResolved(r) ==
    /\ r \in InFlight(listReqs)
    /\ r.served
    /\ Awaiter(r) = NULL
    /\ items' = r.items
    /\ listTotal' = r.total
    /\ shownStatus' = r.status
    /\ isLoading' = FALSE
    /\ listReqs' = listReqs (-) One(r)
    /\ UNCHANGED <<discussionVars, modalVars, uploadVars, actorVars, summary, filterVars, searchVars, page, upvoteLoadingId,
                   toastVars, summaryReqs, voteReqs, serverVars, lastControl>>

fetchListRejected_DropsList(r) ==
    /\ r \in InFlight(listReqs)
    /\ Awaiter(r) = NULL
    /\ pushToast("list_error", "error")
    /\ items' = <<>>
    /\ listTotal' = 0
    /\ shownStatus' = shownStatus
    /\ isLoading' = FALSE
    /\ listReqs' = listReqs (-) One(r)
    /\ UNCHANGED <<discussionVars, modalVars, uploadVars, actorVars, summary, filterVars,
                   searchVars, page, upvoteLoadingId, summaryReqs, voteReqs,
                   serverVars, lastControl>>

(* await api.listFeedback rejected: catch body, then finally *)
fetchListRejected(r) ==
    /\ r \in InFlight(listReqs)
    /\ Awaiter(r) = NULL
    /\ pushToast("list_error", "error")
    /\ isLoading' = FALSE
    /\ listReqs' = listReqs (-) One(r)
    /\ UNCHANGED <<discussionVars, modalVars, uploadVars, actorVars, dataVars, filterVars, searchVars, page, upvoteLoadingId,
                   summaryReqs, voteReqs, serverVars, lastControl>>

fetchSummaryResolved ==
    /\ summaryReqs > AwaitedSummaries
    /\ summaryReqs' = summaryReqs - 1
    /\ summary' = "loaded"
    /\ UNCHANGED <<discussionVars, modalVars, uploadVars, actorVars, items, listTotal, shownStatus, isLoading, filterVars, searchVars,
                   page, upvoteLoadingId, toastVars, listReqs, voteReqs,
                   serverVars, lastControl>>

fetchSummaryRejected ==
    /\ summaryReqs > AwaitedSummaries
    /\ summaryReqs' = summaryReqs - 1
    /\ summary' = NULL
    /\ UNCHANGED <<discussionVars, modalVars, uploadVars, actorVars, items, listTotal, shownStatus, isLoading, filterVars, searchVars,
                   page, upvoteLoadingId, toastVars, listReqs, voteReqs,
                   serverVars, lastControl>>

(* ---------------------------------------------------------------------- *)
(* Toasts                                                                 *)
(* ---------------------------------------------------------------------- *)
WithoutToast(prev, id) == SelectSeq(prev, LAMBDA t : t.id # id)

(* the dismiss button of a toast; its removal timeout stays armed *)
dismissToast(id) ==
    /\ \E k \in 1..Len(toasts) : toasts[k].id = id
    /\ toasts' = WithoutToast(toasts, id)
    /\ UNCHANGED <<discussionVars, modalVars, uploadVars, actorVars, dataVars, isLoading, filterVars, searchVars, page,
                   upvoteLoadingId, toastId, toastTimers, listReqs, summaryReqs, voteReqs,
                   serverVars, lastControl>>

(* time passes for the armed removal timeouts; none of them is overdue *)
toastTick ==
    /\ DOMAIN toastTimers # {}
    /\ \A id \in DOMAIN toastTimers : toastTimers[id] < ToastMs
    /\ toastTimers' = [id \in DOMAIN toastTimers |->
                          Min(toastTimers[id] + ToastTickMs, ToastMs)]
    /\ UNCHANGED <<discussionVars, modalVars, uploadVars, actorVars, dataVars, isLoading, filterVars, searchVars, page,
                   upvoteLoadingId, toasts, toastId, listReqs, summaryReqs, voteReqs,
                   serverVars, lastControl>>

toastTimeout_ClearsQueue(id) ==
    /\ id \in DOMAIN toastTimers
    /\ toastTimers[id] = ToastMs
    /\ toasts' = <<>>
    /\ toastTimers' = [other \in DOMAIN toastTimers \ {id} |-> toastTimers[other]]
    /\ UNCHANGED <<discussionVars, modalVars, uploadVars, actorVars, dataVars, isLoading, filterVars, searchVars, page,
                   upvoteLoadingId, toastId, listReqs, summaryReqs, voteReqs,
                   serverVars, lastControl>>

(* the callback of the removal timeout of toast id, 5000 ms after the push *)
toastTimeout(id) ==
    /\ id \in DOMAIN toastTimers
    /\ toastTimers[id] = ToastMs
    /\ toasts' = WithoutToast(toasts, id)
    /\ toastTimers' = [other \in DOMAIN toastTimers \ {id} |-> toastTimers[other]]
    /\ UNCHANGED <<discussionVars, modalVars, uploadVars, actorVars, dataVars, isLoading, filterVars, searchVars, page,
                   upvoteLoadingId, toastId, listReqs, summaryReqs, voteReqs,
                   serverVars, lastControl>>

(* ---------------------------------------------------------------------- *)
(* Filter / search / pagination controller                                *)
(* ---------------------------------------------------------------------- *)
(* onChange of the search input *)
onSearchInputChange(value) ==
    /\ value # searchInput
    /\ searchInput' = value
    /\ debounce' = DebounceEffect(searchInput, value, debounce)
    /\ lastControl' = "searchInput"
    /\ UNCHANGED <<discussionVars, modalVars, uploadVars, actorVars, dataVars, isLoading, filterVars, searchValue, page,
                   upvoteLoadingId, toastVars, listReqs, summaryReqs, voteReqs,
                   serverVars>>

(* time passes while the debounce timer is pending *)
tick ==
    /\ debounce.pending
    /\ debounce.elapsed < DebounceMs
    /\ debounce' = [debounce EXCEPT !.elapsed = Min(@ + TickMs, DebounceMs)]
    /\ UNCHANGED <<discussionVars, modalVars, uploadVars, actorVars, dataVars, isLoading, filterVars, searchInput,
                   searchValue, page, upvoteLoadingId, toastVars, listReqs,
                   summaryReqs, voteReqs, serverVars, lastControl>>

(* the callback of the debounce timer *)
debounceCommit ==
    /\ debounce.pending
    /\ debounce.elapsed >= DebounceMs
    /\ searchValue' = Trim(debounce.value)
    /\ page' = 0
    /\ debounce' = NoTimer
    /\ UNCHANGED <<filterVars, searchInput>>
    /\ FetchListEffect
    /\ UNCHANGED <<discussionVars, modalVars, uploadVars, actorVars, dataVars, upvoteLoadingId, toastVars, summaryReqs,
                   voteReqs, serverVars, lastControl>>

onTypeChange(value) ==
    /\ value # typeFilter
    /\ typeFilter' = value
    /\ page' = 0
    /\ UNCHANGED <<statusFilter, priorityFilter, sortBy, searchVars>>
    /\ FetchListEffect
    /\ lastControl' = "filter"
    /\ UNCHANGED <<discussionVars, modalVars, uploadVars, actorVars, dataVars, upvoteLoadingId, toastVars, summaryReqs,
                   voteReqs, serverVars>>

onStatusChange(value) ==
    /\ value # statusFilter
    /\ statusFilter' = value
    /\ page' = 0
    /\ UNCHANGED <<typeFilter, priorityFilter, sortBy, searchVars>>
    /\ FetchListEffect
    /\ lastControl' = "filter"
    /\ UNCHANGED <<discussionVars, modalVars, uploadVars, actorVars, dataVars, upvoteLoadingId, toastVars, summaryReqs,
                   voteReqs, serverVars>>

onPriorityChange(value) ==
    /\ value # priorityFilter
    /\ priorityFilter' = value
    /\ page' = 0
    /\ UNCHANGED <<typeFilter, statusFilter, sortBy, searchVars>>
    /\ FetchListEffect
    /\ lastControl' = "filter"
    /\ UNCHANGED <<discussionVars, modalVars, uploadVars, actorVars, dataVars, upvoteLoadingId, toastVars, summaryReqs,
                   voteReqs, serverVars>>

(* the Sort select: setSortBy only *)
onSortChange(value) ==
    /\ value # sortBy
    /\ sortBy' = value
    /\ UNCHANGED <<typeFilter, statusFilter, priorityFilter, searchVars, page>>
    /\ FetchListEffect
    /\ lastControl' = "filter"
    /\ UNCHANGED <<discussionVars, modalVars, uploadVars, actorVars, dataVars, upvoteLoadingId, toastVars, summaryReqs,
                   voteReqs, serverVars>>

(* click (or Enter / Space) on the hint of a quick entry point *)
hintAction(item) ==
    /\ typeFilter' = IF item.type # NULL THEN item.type ELSE typeFilter
    /\ statusFilter' = IF item.status # NULL THEN item.status ELSE statusFilter
    /\ sortBy' = IF item.sortBy # NULL THEN item.sortBy ELSE sortBy
    /\ page' = 0
    /\ UNCHANGED <<priorityFilter, searchVars>>
    /\ FetchListEffect
    /\ lastControl' = "filter"
    /\ UNCHANGED <<discussionVars, modalVars, uploadVars, actorVars, dataVars, upvoteLoadingId, toastVars, summaryReqs,
                   voteReqs, serverVars>>

(* the "Clear filters" buttons, rendered when activeFilters > 0 *)
clearAllFilters ==
    /\ activeFilters > 0
    /\ typeFilter' = "all"
    /\ statusFilter' = "all"
    /\ priorityFilter' = "all"
    /\ sortBy' = "recent"
    /\ searchInput' = <<>>
    /\ searchValue' = <<>>
    /\ page' = 0
    /\ debounce' = DebounceEffect(searchInput, <<>>, debounce)
    /\ FetchListEffect
    /\ lastControl' = "clearAllFilters"
    /\ UNCHANGED <<discussionVars, modalVars, uploadVars, actorVars, dataVars, upvoteLoadingId, toastVars, summaryReqs,
                   voteReqs, serverVars>>

PaginationShown == listTotal > PAGE_SIZE

previousPage ==
    /\ PaginationShown
    /\ page # 0
    /\ page' = Max(0, page - 1)
    /\ UNCHANGED <<filterVars, searchVars>>
    /\ FetchListEffect
    /\ lastControl' = "page"
    /\ UNCHANGED <<discussionVars, modalVars, uploadVars, actorVars, dataVars, upvoteLoadingId, toastVars, summaryReqs,
                   voteReqs, serverVars>>

nextPage ==
    /\ PaginationShown
    /\ ~(page >= totalPages - 1)
    /\ page' = Min(totalPages - 1, page + 1)
    /\ UNCHANGED <<filterVars, searchVars>>
    /\ FetchListEffect
    /\ lastControl' = "page"
    /\ UNCHANGED <<discussionVars, modalVars, uploadVars, actorVars, dataVars, upvoteLoadingId, toastVars, summaryReqs,
                   voteReqs, serverVars>>

(* ---------------------------------------------------------------------- *)
(* Specification of the upvote coordinator with the list synchroniser     *)
(* (no query string, filters at their defaults)                           *)
(* ---------------------------------------------------------------------- *)
InitVote ==
    InitWith(BOOLEAN, {Cardinality(ItemIds)},
             {"all"}, {"all"}, {"all"}, {"recent"})

NextVote ==
    \/ \E id \in ItemIds : handleUpvote(id)
    \/ \E r \in InFlight(voteReqs) : serverToggle(r)
    \/ \E r \in InFlight(voteReqs) : handleUpvoteResolved(r)
    \/ \E r \in InFlight(voteReqs) : handleUpvoteRejected(r)
    \/ \E r \in InFlight(listReqs) : serverList(r)
    \/ \E r \in InFlight(listReqs) : fetchListResolved(r)
    \/ \E r \in InFlight(listReqs) : fetchListRejected(r)
    \/ fetchSummaryResolved
    \/ fetchSummaryRejected
    \/ \E id \in 1..MaxToasts : dismissToast(id)

SpecVote == InitVote /\ [][NextVote]_vars

(* ---------------------------------------------------------------------- *)
(* Properties of the upvote coordinator (checked under SpecVote)          *)
(* ---------------------------------------------------------------------- *)
SignInPrompt == "Sign in to upvote feedback."
HasToast(message) == \E k \in 1..Len(toasts) : toasts[k].message = message

(* steps, recognised by what they do to the requests in flight *)
VoteIssued(id) ==
    /\ BagCardinality(voteReqs') = BagCardinality(voteReqs) + 1
    /\ upvoteLoadingId' = id
VoteSettled == BagCardinality(voteReqs') < BagCardinality(voteReqs)
VoteSucceeded == VoteSettled /\ toastId' = toastId
VoteFailed == VoteSettled /\ toastId' = toastId + 1
ListIssued ==
    /\ BagCardinality(listReqs') = BagCardinality(listReqs) + 1
    /\ BagIn(NewListReq, listReqs')
    /\ isLoading'
ListLanded(r) ==
    /\ r.served
    /\ listReqs' = listReqs (-) One(r)
    /\ toastId' = toastId

(* C1: when an authenticated user toggles the upvote of a listed item, the *)
(* same step negates the item's flag and sets its count to count+1 (flag   *)
(* now true) or max(0, count-1) (flag now false), leaves every other item  *)
(* as it was, and the toggle request is still unanswered (the server has   *)
(* not changed).                                                           *)
C1_OptimisticToggle ==
    [][\A id \in ItemIds : VoteIssued(id) =>
          /\ user
          /\ id \in DOMAIN items
          /\ DOMAIN items' = DOMAIN items
          /\ items'[id].user_has_upvoted = ~items[id].user_has_upvoted
          /\ items'[id].upvotes =
                IF items'[id].user_has_upvoted THEN items[id].upvotes + 1
                ELSE IF items[id].upvotes >= 1 THEN items[id].upvotes - 1 ELSE 0
          /\ \A other \in DOMAIN items \ {id} : items'[other] = items[other]
          /\ BagIn(NewVoteReq(id), voteReqs')
          /\ server' = server]_vars

(* the item {false, 5} shows {true, 6} while its request is unanswered *)
C1_Witness ==
    /\ BagIn(NewVoteReq("a"), voteReqs)
    /\ "a" \in DOMAIN items
    /\ items["a"] = [user_has_upvoted |-> TRUE, upvotes |-> 6]
    /\ server["a"] = [user_has_upvoted |-> FALSE, upvotes |-> 5]

(* C2: without an authenticated user no vote request is ever in flight and *)
(* no item is marked; the step that shows the sign-in prompt changes no    *)
(* item, no marker, and issues no toggle request and no refetch.           *)
C2_UnauthenticatedRejected ==
    [][~user =>
          /\ voteReqs' = EmptyBag
          /\ upvoteLoadingId' = NULL
          /\ (toastId' = toastId + 1 /\ toasts'[Len(toasts')].message = SignInPrompt)
                => UNCHANGED <<items, listTotal, isLoading, upvoteLoadingId,
                               voteReqs, listReqs, summaryReqs, server>>]_vars

C2_Witness ==
    /\ ~user
    /\ HasToast(SignInPrompt)
    /\ items # <<>>
    /\ voteReqs = EmptyBag

(* C3 (as claimed): every item whose vote request is in flight is marked   *)
(* vote-in-flight, whatever other votes start or settle.                   *)
C3_MarkedWhileInFlight ==
    \A r \in InFlight(voteReqs) : upvoteLoadingId = r.id

(* C4: once no vote request is in flight, no item is marked vote-in-flight *)
C4_MarkerCleared ==
    voteReqs = EmptyBag => upvoteLoadingId = NULL

(* a vote has failed, has settled, and no marker is left *)
C4_Witness ==
    /\ HasToast("upvote_error")
    /\ voteReqs = EmptyBag
    /\ upvoteLoadingId = NULL

(* C5: the step in which a vote request succeeds issues a list fetch and a *)
(* summary fetch; the step that applies a list response makes the          *)
(* displayed items and total exactly those of the response.                *)
C5_SuccessRefetches ==
    [][/\ VoteSucceeded => (ListIssued /\ summaryReqs' = summaryReqs + 1)
       /\ \A r \in InFlight(listReqs) : ListLanded(r) =>
             (items' = r.items /\ listTotal' = r.total)]_vars

(* no request ever failed, a vote was carried out by the server and has    *)
(* settled, and the list shows the server's values again                   *)
C5_Witness ==
    /\ toastId = 0
    /\ voteReqs = EmptyBag
    /\ listReqs = EmptyBag
    /\ server["a"] # ServerItemsAtMount["a"]
    /\ items = server

(* C6: the step in which a vote request fails pushes an error toast and    *)
(* issues a list fetch, without touching the items or the summary fetches; *)
(* every list response carries the server's values of the moment it was   *)
(* answered, and when a list response is applied afterwards, every listed  *)
(* item shows the values of that response.                                 *)
C6_FailureRevertsByRefetch ==
    [][/\ VoteFailed =>
             /\ toasts' = Append(toasts, [id |-> toastId + 1,
                                          message |-> "upvote_error",
                                          variant |-> "error"])
             /\ ListIssued
             /\ UNCHANGED <<items, summaryReqs>>
       /\ \A r \in InFlight(listReqs') :
             (r.served /\ CopiesIn(r, listReqs') > CopiesIn(r, listReqs)) =>
                r.items = server
       /\ \A r \in InFlight(listReqs) : (ListLanded(r) /\ HasToast("upvote_error")) =>
             \A id \in DOMAIN items' : items'[id] = r.items[id]]_vars

(* one vote failed (the only failure), its refetch has landed, and the     *)
(* list shows the server's values                                          *)
C6_Witness ==
    /\ toastId = 1
    /\ HasToast("upvote_error")
    /\ voteReqs = EmptyBag
    /\ listReqs = EmptyBag
    /\ items = server

(* C7 (as claimed): once every vote request and every list fetch has       *)
(* settled, none of them with a failure, every listed item shows the       *)
(* server's count and flag.                                                *)
C7_Reconciled ==
    (toastId = 0 /\ voteReqs = EmptyBag /\ listReqs = EmptyBag) =>
        \A id \in DOMAIN items : items[id] = server[id]

ListSettled == BagCardinality(listReqs') < BagCardinality(listReqs)
ListFailed == ListSettled /\ toastId' = toastId + 1

(* C11: the step in which a list fetch fails pushes an error toast and     *)
(* leaves the displayed items and the total as they were; every step in    *)
(* which a list fetch settles, failed or not, clears the loading flag.     *)
C11_FailedFetchKeepsList ==
    [][/\ ListFailed =>
             /\ toasts' = Append(toasts, [id |-> toastId + 1,
                                          message |-> "list_error",
                                          variant |-> "error"])
             /\ items' = items
             /\ listTotal' = listTotal
       /\ ListSettled => ~isLoading']_vars

(* a refetch failed after the list had been loaded: the loaded items and   *)
(* total are still displayed and the loading flag is cleared               *)
C11_Witness ==
    /\ HasToast("list_error")
    /\ listReqs = EmptyBag
    /\ ~isLoading
    /\ items # <<>>
    /\ listTotal = Cardinality(ItemIds)

(* ---------------------------------------------------------------------- *)
(* Specification of the filter / search / pagination controller with the  *)
(* list synchroniser (signed-in user, filters seeded from the query       *)
(* string)                                                                *)
(* ---------------------------------------------------------------------- *)
InitFilter ==
    InitWith({TRUE}, TotalValues,
             TypeOptions, StatusOptions, PriorityOptions, SortOptions)

NextFilter ==
    \/ \E value \in Strings : onSearchInputChange(value)
    \/ tick
    \/ debounceCommit
    \/ \E value \in TypeOptions : onTypeChange(value)
    \/ \E value \in StatusOptions : onStatusChange(value)
    \/ \E value \in PriorityOptions : onPriorityChange(value)
    \/ \E value \in SortOptions : onSortChange(value)
    \/ \E item \in QUICK_SUBMIT : hintAction(item)
    \/ clearAllFilters
    \/ previousPage
    \/ nextPage
    \/ \E r \in InFlight(listReqs) : serverList(r)
    \/ \E r \in InFlight(listReqs) : fetchListResolved(r)
    \/ \E r \in InFlight(listReqs) : fetchListRejected(r)

SpecFilter == InitFilter /\ [][NextFilter]_vars

(* ---------------------------------------------------------------------- *)
(* Properties of the filter controller (checked under SpecFilter)         *)
(* ---------------------------------------------------------------------- *)
DebounceCommitted == debounce.pending /\ ~debounce'.pending

(* the debounce contract, for a given committed value *)
DebounceContract(committed) ==
    /\ (searchInput' # searchInput /\ lastControl' = "searchInput") =>
          /\ UNCHANGED <<searchValue, page, filterVars, dataVars, isLoading,
                         listReqs>>
          /\ debounce' = [pending |-> TRUE, value |-> searchInput',
                          elapsed |-> 0]
    /\ DebounceCommitted =>
          /\ debounce.elapsed >= DebounceMs
          /\ debounce.value = searchInput
          /\ searchInput' = searchInput
          /\ searchValue' = committed
          /\ page' = 0
    /\ searchValue' # searchValue =>
          DebounceCommitted \/ lastControl' = "clearAllFilters"

(* C8 (as claimed): typing changes only the live value and restarts the    *)
(* 400ms wait; the committed value changes only when the wait has run out  *)
(* with no further input, and then equals the typed string, with the page  *)
(* index 0.                                                                *)
C8_CommitsTypedString == [][DebounceContract(searchInput)]_vars

(* C8 (amended): as above, but the committed value is the typed string     *)
(* with its leading and trailing whitespace removed.                       *)
C8_CommitsTrimmedString == [][DebounceContract(Trim(searchInput))]_vars

(* a commit has landed whose value is not the text in the input box but    *)
(* its trimmed form                                                        *)
C8_Witness ==
    /\ lastControl = "searchInput"
    /\ ~debounce.pending
    /\ searchInput # <<>>
    /\ searchValue = Trim(searchInput)
    /\ searchValue # searchInput
    /\ page = 0

(* C9 (as claimed): every step that changes the type, status, priority or  *)
(* sort filter leaves the page index at 0.                                 *)
C9_FilterChangeResetsPage ==
    [][(\/ typeFilter' # typeFilter
        \/ statusFilter' # statusFilter
        \/ priorityFilter' # priorityFilter
        \/ sortBy' # sortBy) => page' = 0]_vars

(* C10: from the clear-all action until the user operates another control, *)
(* type, status and priority are "all", sort is "recent", the live and the *)
(* committed search are empty and the page index is 0: no debounce commit  *)
(* that was pending at the clear makes the committed search non-empty.     *)
C10_ClearFlushesDebounce ==
    lastControl = "clearAllFilters" =>
        /\ typeFilter = "all"
        /\ statusFilter = "all"
        /\ priorityFilter = "all"
        /\ sortBy = "recent"
        /\ searchInput = <<>>
        /\ searchValue = <<>>
        /\ page = 0
        /\ debounce.pending => debounce.value = <<>>

(* after a clear a debounce commit is due *)
C10_Witness ==
    /\ lastControl = "clearAllFilters"
    /\ debounce.pending
    /\ debounce.elapsed >= DebounceMs

(* ---------------------------------------------------------------------- *)
(* Comment threads                                                        *)
(* ---------------------------------------------------------------------- *)
(* isExpanded={expandedId === item.id} *)
isExpanded(id) == expandedId = id

(* the thread of a card, with its textarea and Post button, is rendered *)
ThreadShown(id) == CardShown(id) /\ isExpanded(id)

(* api.getFeedbackComments(id), called by toggleComments ("toggle") or by *)
(* handleSubmitComment ("post")                                           *)
NewCommentsReq(id, caller) ==
    [kind |-> "get", id |-> id, caller |-> caller, done |-> FALSE,
     items |-> <<>>, comment |-> <<>>]

(* api.addFeedbackComment(id, {comment}) *)
NewAddReq(id, comment) ==
    [kind |-> "add", id |-> id, caller |-> "post", done |-> FALSE,
     items |-> <<>>, comment |-> comment]

NeedsFetch_Always(feedbackId) == TRUE

(* if (!commentsById[feedbackId]) *)
NeedsFetch(feedbackId) == ~commentsById[feedbackId].cached

toggleComments_CollapseFetches(feedbackId) ==
    /\ CardShown(feedbackId)
    /\ Room(1)
    /\ expandedId' = IF expandedId = feedbackId THEN NULL ELSE feedbackId
    /\ expandedOnce' = IF expandedId = feedbackId THEN expandedOnce
                       ELSE expandedOnce \cup {feedbackId}
    /\ commentReqs' = commentReqs (+) One(NewCommentsReq(feedbackId, "toggle"))
    /\ UNCHANGED <<commentsById, commentDrafts, commentLoadingId,
                   serverComments, modalVars, uploadVars, actorVars, dataVars, isLoading,
                   filterVars, searchVars, page, upvoteLoadingId, toastVars,
                   listReqs, summaryReqs, voteReqs, serverVars, lastControl>>

(* the Discuss / Hide button of a card *)
toggleComments(feedbackId) ==
    /\ CardShown(feedbackId)
    /\ IF expandedId = feedbackId
       THEN /\ expandedId' = NULL
            /\ UNCHANGED <<commentReqs, expandedOnce>>
       ELSE /\ expandedId' = feedbackId
            /\ expandedOnce' = expandedOnce \cup {feedbackId}
            /\ IF NeedsFetch(feedbackId)
               THEN /\ Room(1)
                    /\ commentReqs' =
                          commentReqs (+) One(NewCommentsReq(feedbackId, "toggle"))
               ELSE UNCHANGED commentReqs
    /\ UNCHANGED <<commentsById, commentDrafts, commentLoadingId,
                   serverComments, modalVars, uploadVars, actorVars, dataVars, isLoading,
                   filterVars, searchVars, page, upvoteLoadingId, toastVars,
                   listReqs, summaryReqs, voteReqs, serverVars, lastControl>>

(* the server answers a comments request from its state at that moment *)
serverGetComments(r) ==
    /\ r \in InFlight(commentReqs)
    /\ r.kind = "get"
    /\ ~r.done
    /\ commentReqs' = (commentReqs (-) One(r))
          (+) One([r EXCEPT !.done = TRUE, !.items = serverComments[r.id]])
    /\ UNCHANGED <<expandedId, commentsById, commentDrafts, commentLoadingId,
                   serverComments, expandedOnce, modalVars, uploadVars, actorVars, dataVars,
                   isLoading, filterVars, searchVars, page, upvoteLoadingId,
                   toastVars, listReqs, summaryReqs, voteReqs, serverVars,
                   lastControl>>

(* toggleComments: await api.getFeedbackComments resolved *)
toggleCommentsResolved(r) ==
    /\ r \in InFlight(commentReqs)
    /\ r.kind = "get"
    /\ r.caller = "toggle"
    /\ r.done
    /\ commentsById' = [commentsById EXCEPT ![r.id] = Entry(r.items)]
    /\ commentReqs' = commentReqs (-) One(r)
    /\ UNCHANGED <<expandedId, commentDrafts, commentLoadingId,
                   serverComments, expandedOnce, modalVars, uploadVars, actorVars, dataVars,
                   isLoading, filterVars, searchVars, page, upvoteLoadingId,
                   toastVars, listReqs, summaryReqs, voteReqs, serverVars,
                   lastControl>>

(* toggleComments: await api.getFeedbackComments rejected *)
toggleCommentsRejected(r) ==
    /\ r \in InFlight(commentReqs)
    /\ r.kind = "get"
    /\ r.caller = "toggle"
    /\ pushToast("comments_error", "error")
    /\ commentReqs' = commentReqs (-) One(r)
    /\ UNCHANGED <<expandedId, commentsById, commentDrafts, commentLoadingId,
                   serverComments, expandedOnce, modalVars, uploadVars, actorVars, dataVars,
                   isLoading, filterVars, searchVars, page, upvoteLoadingId,
                   listReqs, summaryReqs, voteReqs, serverVars, lastControl>>

(* onChange of the textarea of an expanded card *)
onCommentDraftChange(id, value) ==
    /\ ThreadShown(id)
    /\ value # commentDrafts[id]
    /\ commentDrafts' = [commentDrafts EXCEPT ![id] = value]
    /\ UNCHANGED <<expandedId, commentsById, commentLoadingId, commentReqs,
                   serverComments, expandedOnce, modalVars, uploadVars, actorVars, dataVars,
                   isLoading, filterVars, searchVars, page, upvoteLoadingId,
                   toastVars, listReqs, summaryReqs, voteReqs, serverVars,
                   lastControl>>

DraftComment_Untrimmed(feedbackId) == commentDrafts[feedbackId]

(* (commentDrafts[feedbackId] || "").trim() *)
DraftComment(feedbackId) == Trim(commentDrafts[feedbackId])

(* Ctrl+Enter in the textarea, or the Post button: handleSubmitComment up *)
(* to its first await                                                     *)
handleSubmitComment(feedbackId) ==
    /\ ThreadShown(feedbackId)
    /\ lastControl' = "submitComment"
    /\ IF DraftComment(feedbackId) = <<>>
       THEN UNCHANGED <<commentLoadingId, commentReqs>>
       ELSE /\ Room(1)
            /\ commentLoadingId' = feedbackId
            /\ commentReqs' = commentReqs
                  (+) One(NewAddReq(feedbackId, DraftComment(feedbackId)))
    /\ UNCHANGED <<expandedId, commentsById, commentDrafts, serverComments,
                   expandedOnce, modalVars, uploadVars, actorVars, dataVars, isLoading,
                   filterVars, searchVars, page, upvoteLoadingId, toastVars,
                   listReqs, summaryReqs, voteReqs, serverVars>>

(* the server stores a posted comment *)
serverAddComment(r) ==
    /\ r \in InFlight(commentReqs)
    /\ r.kind = "add"
    /\ ~r.done
    /\ serverComments' = [serverComments EXCEPT ![r.id] =
                             Append(@, [comment |-> r.comment, mine |-> TRUE])]
    /\ commentReqs' = (commentReqs (-) One(r)) (+) One([r EXCEPT !.done = TRUE])
    /\ UNCHANGED <<expandedId, commentsById, commentDrafts, commentLoadingId,
                   expandedOnce, modalVars, uploadVars, actorVars, dataVars, isLoading,
                   filterVars, searchVars, page, upvoteLoadingId, toastVars,
                   listReqs, summaryReqs, voteReqs, serverVars, lastControl>>

(* handleSubmitComment: await api.addFeedbackComment resolved; the         *)
(* comments of the item are requested                                      *)
handleSubmitCommentPosted(r) ==
    /\ r \in InFlight(commentReqs)
    /\ r.kind = "add"
    /\ r.done
    /\ commentReqs' = (commentReqs (-) One(r)) (+) One(NewCommentsReq(r.id, "post"))
    /\ UNCHANGED <<expandedId, commentsById, commentDrafts, commentLoadingId,
                   serverComments, expandedOnce, modalVars, uploadVars, actorVars, dataVars,
                   isLoading, filterVars, searchVars, page, upvoteLoadingId,
                   toastVars, listReqs, summaryReqs, voteReqs, serverVars,
                   lastControl>>

(* handleSubmitComment: api.addFeedbackComment or the following            *)
(* api.getFeedbackComments rejected: catch body, then finally              *)
handleSubmitCommentRejected(r) ==
    /\ r \in InFlight(commentReqs)
    /\ r.caller = "post"
    /\ pushToastsUpTo(MaxNotices, << <<"comment_error", "error">> >>)
    /\ commentLoadingId' = NULL
    /\ commentReqs' = commentReqs (-) One(r)
    /\ UNCHANGED <<expandedId, commentsById, commentDrafts, serverComments,
                   expandedOnce, modalVars, uploadVars, actorVars, dataVars, isLoading,
                   filterVars, searchVars, page, upvoteLoadingId, listReqs,
                   summaryReqs, voteReqs, serverVars, lastControl>>

handleSubmitCommentRefetched_Appends(r) ==
    /\ r \in InFlight(commentReqs)
    /\ r.kind = "get"
    /\ r.caller = "post"
    /\ r.done
    /\ commentsById' = [commentsById EXCEPT ![r.id] =
             Entry(Append(@.items, [comment |-> <<"x">>, mine |-> TRUE]))]
    /\ commentDrafts' = [commentDrafts EXCEPT ![r.id] = <<>>]
    /\ isLoading' = TRUE
    /\ listReqs' = listReqs (+) One(AwaitedListReq("comment"))
    /\ commentReqs' = commentReqs (-) One(r)
    /\ UNCHANGED <<expandedId, commentLoadingId, serverComments, expandedOnce,
                   modalVars, uploadVars, actorVars, dataVars, filterVars, searchVars, page,
                   upvoteLoadingId, toastVars, summaryReqs, voteReqs,
                   serverVars, lastControl>>

(* handleSubmitComment: await api.getFeedbackComments resolved; the cache *)
(* entry is replaced, the draft cleared, and fetchList called and awaited *)
handleSubmitCommentRefetched(r) ==
    /\ r \in InFlight(commentReqs)
    /\ r.kind = "get"
    /\ r.caller = "post"
    /\ r.done
    /\ commentsById' = [commentsById EXCEPT ![r.id] = Entry(r.items)]
    /\ commentDrafts' = [commentDrafts EXCEPT ![r.id] = <<>>]
    /\ isLoading' = TRUE
    /\ listReqs' = listReqs (+) One(AwaitedListReq("comment"))
    /\ commentReqs' = commentReqs (-) One(r)
    /\ UNCHANGED <<expandedId, commentLoadingId, serverComments, expandedOnce,
                   modalVars, uploadVars, actorVars, dataVars, filterVars, searchVars, page,
                   upvoteLoadingId, toastVars, summaryReqs, voteReqs,
                   serverVars, lastControl>>

(* handleSubmitComment: the awaited fetchList resolved with a response;   *)
(* then the success toast and the finally block                           *)
handleSubmitCommentListResolved(r) ==
    /\ r \in InFlight(listReqs)
    /\ r.served
    /\ Awaiter(r) = "comment"
    /\ items' = r.items
    /\ listTotal' = r.total
    /\ shownStatus' = r.status
    /\ isLoading' = FALSE
    /\ listReqs' = listReqs (-) One(r)
    /\ pushToastsUpTo(MaxNotices, << <<"Comment posted", "success">> >>)
    /\ commentLoadingId' = NULL
    /\ UNCHANGED <<expandedId, commentsById, commentDrafts, commentReqs,
                   serverComments, expandedOnce, modalVars, uploadVars, actorVars, summary,
                   filterVars, searchVars, page, upvoteLoadingId, summaryReqs,
                   voteReqs, serverVars, lastControl>>

(* handleSubmitComment: the awaited fetchList caught a rejection (its own *)
(* error toast); then the success toast and the finally block             *)
handleSubmitCommentListRejected(r) ==
    /\ r \in InFlight(listReqs)
    /\ Awaiter(r) = "comment"
    /\ isLoading' = FALSE
    /\ listReqs' = listReqs (-) One(r)
    /\ pushToastsUpTo(MaxNotices, << <<"list_error", "error">>,
                                     <<"Comment posted", "success">> >>)
    /\ commentLoadingId' = NULL
    /\ UNCHANGED <<expandedId, commentsById, commentDrafts, commentReqs,
                   serverComments, expandedOnce, modalVars, uploadVars, actorVars, dataVars,
                   filterVars, searchVars, page, upvoteLoadingId, summaryReqs,
                   voteReqs, serverVars, lastControl>>

(* ---------------------------------------------------------------------- *)
(* Specification of expanding and collapsing comment threads, with the    *)
(* list synchroniser (signed-in user, filters at their defaults, with or  *)
(* without a feedback_id query parameter)                                 *)
(* ---------------------------------------------------------------------- *)
FocusIds == {NULL, "a"}

InitThreads ==
    /\ BoardAtMount({TRUE}, {Cardinality(ItemIds)},
                    {"all"}, {"all"}, {"all"}, {"recent"})
    /\ \E focusId \in FocusIds : DiscussionAtMount(focusId)
    /\ ModalAtMount
    /\ UploaderAtMount
    /\ AccountNotMounted

NextThreads ==
    \/ \E id \in ItemIds : toggleComments(id)
    \/ \E r \in InFlight(commentReqs) : serverGetComments(r)
    \/ \E r \in InFlight(commentReqs) : toggleCommentsResolved(r)
    \/ \E r \in InFlight(commentReqs) : toggleCommentsRejected(r)
    \/ \E r \in InFlight(listReqs) : serverList(r)
    \/ \E r \in InFlight(listReqs) : fetchListResolved(r)
    \/ \E r \in InFlight(listReqs) : fetchListRejected(r)

SpecThreads == InitThreads /\ [][NextThreads]_vars

(* a comments request of toggleComments for item id is issued *)
CommentFetchIssued(id) ==
    CopiesIn(NewCommentsReq(id, "toggle"), commentReqs')
        > CopiesIn(NewCommentsReq(id, "toggle"), commentReqs)

Expanding(id) == expandedId # id /\ expandedId' = id

(* C13 (as claimed): a comments fetch for an item is issued only by the    *)
(* first expand of that item; an expand of an item that was expanded       *)
(* before issues no fetch and leaves the item's cache entry unchanged.     *)
C13_FetchOnlyOnFirstExpand ==
    [][\A id \in ItemIds :
          /\ CommentFetchIssued(id) => (Expanding(id) /\ id \notin expandedOnce)
          /\ (Expanding(id) /\ id \in expandedOnce) =>
                /\ commentReqs' = commentReqs
                /\ commentsById'[id] = commentsById[id]]_vars

(* C14: at most one thread is open; when an item is expanded every other   *)
(* item is collapsed; the step that collapses the open thread issues no    *)
(* request and changes no cache entry.                                     *)
C14_OneThreadOpen ==
    [][/\ Cardinality({id \in ItemIds : isExpanded(id)'}) <= 1
       /\ \A a \in ItemIds : Expanding(a) =>
             \A b \in ItemIds \ {a} : ~isExpanded(b)'
       /\ (expandedId # NULL /\ expandedId' = NULL) =>
             UNCHANGED <<commentReqs, listReqs, commentsById>>]_vars

(* item b was expanded while the thread of a was open, then b's open       *)
(* thread was toggled: no thread is open and nothing is in flight          *)
C14_Witness ==
    /\ expandedOnce = ItemIds
    /\ expandedId = NULL
    /\ commentsById["a"].cached
    /\ commentsById["b"].cached
    /\ commentReqs = EmptyBag

(* a fetch of the comments of item id is in flight, has filled the cache,  *)
(* or has failed with its toast                                            *)
CommentsRequested(id) ==
    \/ \E r \in InFlight(commentReqs) : r.kind = "get" /\ r.id = id
    \/ commentsById[id].cached
    \/ HasToast("comments_error")

(* C36 (as claimed): for the item whose thread is expanded, a fetch of its *)
(* comments has been issued.                                               *)
C36_ExpandedWasFetched ==
    \A id \in ItemIds : isExpanded(id) => CommentsRequested(id)

(* what the code keeps: a toggle that expands a thread without a cache     *)
(* entry issues the fetch; the focus effect at mount issues none           *)
C36_ToggleFetches ==
    [][\A id \in ItemIds : Expanding(id) =>
          (commentsById[id].cached \/ CommentFetchIssued(id))]_vars

(* the page was opened with feedback_id=a and the list has landed: the     *)
(* thread of a is shown with no comment, no fetch was ever issued, and the *)
(* server holds a comment for a                                            *)
C36_Witness_NeverFetched ==
    /\ ThreadShown("a")
    /\ commentsById["a"] = NoEntry
    /\ commentReqs = EmptyBag
    /\ toastId = 0
    /\ serverComments["a"] # <<>>

(* ---------------------------------------------------------------------- *)
(* Specification of posting comments in the thread that the feedback_id   *)
(* query parameter has expanded, with the list synchroniser               *)
(* ---------------------------------------------------------------------- *)
InitPost ==
    /\ BoardAtMount({TRUE}, {Cardinality(ItemIds)},
                    {"all"}, {"all"}, {"all"}, {"recent"})
    /\ DiscussionAtMount("a")
    /\ ModalAtMount
    /\ UploaderAtMount
    /\ AccountNotMounted

NextPost ==
    \/ \E id \in ItemIds, value \in DraftTexts : onCommentDraftChange(id, value)
    \/ \E id \in ItemIds : handleSubmitComment(id)
    \/ \E r \in InFlight(commentReqs) : serverAddComment(r)
    \/ \E r \in InFlight(commentReqs) : serverGetComments(r)
    \/ \E r \in InFlight(commentReqs) : handleSubmitCommentPosted(r)
    \/ \E r \in InFlight(commentReqs) : handleSubmitCommentRejected(r)
    \/ \E r \in InFlight(commentReqs) : handleSubmitCommentRefetched(r)
    \/ \E r \in InFlight(listReqs) : handleSubmitCommentListResolved(r)
    \/ \E r \in InFlight(listReqs) : handleSubmitCommentListRejected(r)
    \/ \E r \in InFlight(listReqs) : serverList(r)
    \/ \E r \in InFlight(listReqs) : fetchListResolved(r)
    \/ \E r \in InFlight(listReqs) : fetchListRejected(r)

SpecPost == InitPost /\ [][NextPost]_vars

Blank(id) == Trim(commentDrafts[id]) = <<>>

(* a post request for item id is issued *)
AddIssued(id) ==
    \E r \in InFlight(commentReqs') :
        /\ r.kind = "add" /\ r.id = id /\ ~r.done
        /\ CopiesIn(r, commentReqs') > CopiesIn(r, commentReqs)

(* C15: a post request for an item is issued, or the item marked as        *)
(* posting, only when the trimmed draft of the item is non-empty, and the  *)
(* request carries the trimmed draft; a submit action on a thread whose    *)
(* draft is empty or white space changes neither the requests in flight,   *)
(* the marker, the drafts, the comment cache nor the list.                 *)
C15_BlankDraftSendsNothing ==
    [][/\ \A id \in ItemIds :
             (AddIssued(id) \/ (commentLoadingId' = id /\ commentLoadingId # id)) =>
                /\ ~Blank(id)
                /\ CopiesIn(NewAddReq(id, Trim(commentDrafts[id])), commentReqs')
                      > CopiesIn(NewAddReq(id, Trim(commentDrafts[id])), commentReqs)
       /\ (/\ lastControl' = "submitComment"
           /\ lastControl # "submitComment"
           /\ \A id \in ItemIds : ThreadShown(id) => Blank(id)) =>
             UNCHANGED <<commentReqs, commentLoadingId, commentDrafts,
                         commentsById, items, listTotal, isLoading, listReqs,
                         serverComments, toastVars>>]_vars

(* the submit action was used, the draft is white space, and no comment    *)
(* was ever sent                                                           *)
C15_Witness ==
    /\ lastControl = "submitComment"
    /\ commentDrafts["a"] = <<" ">>
    /\ commentReqs = EmptyBag
    /\ commentLoadingId = NULL
    /\ toastId = 0
    /\ serverComments = CommentsAtMount

(* the steps of a comment post *)
PostAnswered(r) ==
    /\ r.kind = "add" /\ r.done
    /\ commentReqs' = (commentReqs (-) One(r)) (+) One(NewCommentsReq(r.id, "post"))
RefetchLanded(r) ==
    /\ r.kind = "get" /\ r.caller = "post" /\ r.done
    /\ commentReqs' = commentReqs (-) One(r)
    /\ toastId' = toastId
CommentListIssued ==
    CopiesIn(AwaitedListReq("comment"), listReqs')
        > CopiesIn(AwaitedListReq("comment"), listReqs)
CommentListSettled ==
    \E r \in InFlight(listReqs) :
        Awaiter(r) = "comment" /\ listReqs' = listReqs (-) One(r)

(* the order of a comment post, with the draft cleared either in the step  *)
(* that replaces the cache entry or in the step that settles the list      *)
(* refetch                                                                 *)
PostOrder(clearedWithCache) ==
    /\ \A id \in ItemIds : AddIssued(id) =>
          UNCHANGED <<commentsById, commentDrafts, listReqs>>
    /\ \A r \in InFlight(commentReqs) : PostAnswered(r) =>
          UNCHANGED <<commentsById, commentDrafts, listReqs, commentLoadingId>>
    /\ \A r \in InFlight(commentReqs) : RefetchLanded(r) =>
          /\ commentsById' = [commentsById EXCEPT ![r.id] = Entry(r.items)]
          /\ CommentListIssued
          /\ isLoading'
          /\ commentDrafts' =
                IF clearedWithCache
                THEN [commentDrafts EXCEPT ![r.id] = <<>>]
                ELSE commentDrafts
    /\ CommentListIssued =>
          \E r \in InFlight(commentReqs) : RefetchLanded(r)
    /\ CommentListSettled =>
          /\ commentLoadingId' = NULL
          /\ commentsById' = commentsById
          /\ \/ clearedWithCache /\ commentDrafts' = commentDrafts
             \/ ~clearedWithCache /\ \E id \in ItemIds :
                   commentDrafts' = [commentDrafts EXCEPT ![id] = <<>>]
    /\ \A id \in ItemIds :
          (commentsById'[id] # commentsById[id]) =>
             \E r \in InFlight(commentReqs) : r.id = id /\ RefetchLanded(r)

(* C16 (as claimed): the post request, then the re-fetch of the item's     *)
(* comments replacing its cache entry, then the list refetch, then the     *)
(* clearing of the item's draft.                                           *)
C16_DraftClearedAfterListRefetch == [][PostOrder(FALSE)]_vars

(* C16 (amended): the post request, then the re-fetch of the item's        *)
(* comments replacing its cache entry (no local append) and, in the same   *)
(* step, the clearing of the item's draft, then the list refetch.          *)
C16_DraftClearedWithCache == [][PostOrder(TRUE)]_vars

(* the comment was posted and re-fetched: the cache entry is the server's  *)
(* list with the new comment, the draft is empty, and the list refetch is  *)
(* still in flight                                                         *)
C16_Witness ==
    /\ BagIn(AwaitedListReq("comment"), listReqs)
    /\ commentLoadingId = "a"
    /\ commentsById["a"] = Entry(Append(CommentsAtMount["a"],
                                        [comment |-> <<"x">>, mine |-> TRUE]))
    /\ commentDrafts["a"] = <<>>
    /\ isLoading

(* ---------------------------------------------------------------------- *)
(* Specification of comment posts on several items: threads are expanded  *)
(* and collapsed while posts are in flight                                *)
(* ---------------------------------------------------------------------- *)
InitMarker == InitPost

NextMarker ==
    \/ \E id \in ItemIds : toggleComments(id)
    \/ \E id \in ItemIds : onCommentDraftChange(id, <<"x">>)
    \/ \E id \in ItemIds : handleSubmitComment(id)
    \/ \E r \in InFlight(commentReqs) : serverAddComment(r)
    \/ \E r \in InFlight(commentReqs) : serverGetComments(r)
    \/ \E r \in InFlight(commentReqs) : toggleCommentsResolved(r)
    \/ \E r \in InFlight(commentReqs) : handleSubmitCommentPosted(r)
    \/ \E r \in InFlight(commentReqs) : handleSubmitCommentRejected(r)
    \/ \E r \in InFlight(commentReqs) : handleSubmitCommentRefetched(r)
    \/ \E r \in InFlight(listReqs) : handleSubmitCommentListResolved(r)
    \/ \E r \in InFlight(listReqs) : serverList(r)
    \/ \E r \in InFlight(listReqs) : fetchListResolved(r)

SpecMarker == InitMarker /\ [][NextMarker]_vars

(* the addFeedbackComment or getFeedbackComments call of a post to item id *)
(* is in flight                                                            *)
PostInFlight(id) ==
    \E r \in InFlight(commentReqs) : r.caller = "post" /\ r.id = id

(* the disabled attribute of the Post button of item id *)
PostDisabled(id) == commentLoadingId = id \/ Blank(id)

(* a post settled: its request was rejected, or its list refetch settled *)
PostSettled ==
    \/ \E r \in InFlight(commentReqs) :
          /\ r.caller = "post"
          /\ commentReqs' = commentReqs (-) One(r)
          /\ toastId' # toastId
    \/ CommentListSettled

(* C31 (as claimed): after every step, the Post button of every item with  *)
(* a post in flight is disabled; the marker moves to an item only in the   *)
(* step that issues a post for that item; the step in which a post         *)
(* settles clears the marker.                                              *)
C31_MarkerScopedToItem ==
    [][/\ \A id \in ItemIds :
             (\E r \in InFlight(commentReqs') : r.caller = "post" /\ r.id = id)
                => (commentLoadingId' = id \/ Trim(commentDrafts'[id]) = <<>>)
       /\ \A id \in ItemIds :
             (commentLoadingId' = id /\ commentLoadingId # id) => AddIssued(id)
       /\ PostSettled => commentLoadingId' = NULL]_vars

(* the marker as the code keeps it: one item id, set by the latest post    *)
(* issued and cleared by whichever post settles                            *)
C31_MarkerIsLatestPost ==
    [][/\ \A id \in ItemIds : AddIssued(id) => commentLoadingId' = id
       /\ \A id \in ItemIds :
             (commentLoadingId' = id /\ commentLoadingId # id) => AddIssued(id)
       /\ PostSettled => commentLoadingId' = NULL]_vars

(* a post to item a is in flight with its draft still in the textarea,     *)
(* and the marker names item b: the Post button of a is enabled            *)
C31_Witness_Unmarked ==
    /\ PostInFlight("a")
    /\ ~PostDisabled("a")
    /\ commentLoadingId = "b"

(* ---------------------------------------------------------------------- *)
(* Specification of the toast queue: the toasts of the comment posting    *)
(* and of its list refetch, dismissed by their button                     *)
(* ---------------------------------------------------------------------- *)
InitToast == InitPost

NextToast ==
    \/ \E value \in {<<"x">>} : onCommentDraftChange("a", value)
    \/ handleSubmitComment("a")
    \/ \E r \in InFlight(commentReqs) : serverAddComment(r)
    \/ \E r \in InFlight(commentReqs) : serverGetComments(r)
    \/ \E r \in InFlight(commentReqs) : handleSubmitCommentPosted(r)
    \/ \E r \in InFlight(commentReqs) : handleSubmitCommentRejected(r)
    \/ \E r \in InFlight(commentReqs) : handleSubmitCommentRefetched(r)
    \/ \E r \in InFlight(listReqs) : handleSubmitCommentListResolved(r)
    \/ \E r \in InFlight(listReqs) : handleSubmitCommentListRejected(r)
    \/ \E r \in InFlight(listReqs) : serverList(r)
    \/ \E r \in InFlight(listReqs) : fetchListResolved(r)
    \/ \E r \in InFlight(listReqs) : fetchListRejected(r)
    \/ \E id \in 1..MaxNotices : dismissToast(id)

SpecToast == InitToast /\ [][NextToast]_vars

(* the identifiers of the toasts in the queue *)
QueuedIds(queue) == {queue[k].id : k \in 1..Len(queue)}

(* C29: toastId is the largest identifier issued; a step that pushes n     *)
(* toasts appends them with the n identifiers following toastId, a step    *)
(* that pushes none adds no toast, and the identifiers of the queue are    *)
(* distinct and not larger than toastId.                                   *)
C29_ToastIdsNeverRepeat ==
    [][LET n == toastId' - toastId
       IN  /\ n >= 0
           /\ Len(toasts') >= n
           /\ \A k \in 1..n : toasts'[Len(toasts') - n + k].id = toastId + k
           /\ \A k \in 1..(Len(toasts') - n) :
                 \E j \in 1..Len(toasts) : toasts'[k] = toasts[j]
           /\ Cardinality(QueuedIds(toasts')) = Len(toasts')
           /\ \A id \in QueuedIds(toasts') : id <= toastId']_vars

(* the first toast has left the queue and a second one was pushed after    *)
(* that: its identifier is 2                                               *)
C29_Witness ==
    /\ toastId = 2
    /\ Len(toasts) = 1
    /\ toasts[1].id = 2
    /\ toasts[1].message = "Comment posted"

(* ---------------------------------------------------------------------- *)
(* Specification of the expiring toast queue: the list at mount, the      *)
(* error toasts of rejected comment posts, their dismiss buttons, the     *)
(* passing of time and the removal timeouts; a timeout that is due runs,  *)
(* and time does not stand still                                          *)
(* ---------------------------------------------------------------------- *)
ToastIds == 1..Max(MaxNotices, MaxToasts)

NextExpiry ==
    \/ onCommentDraftChange("a", <<"x">>)
    \/ handleSubmitComment("a")
    \/ \E r \in InFlight(commentReqs) : handleSubmitCommentRejected(r)
    \/ \E id \in ToastIds : dismissToast(id)
    \/ \E r \in InFlight(listReqs) : serverList(r)
    \/ \E r \in InFlight(listReqs) : fetchListResolved(r)
    \/ toastTick
    \/ \E id \in ToastIds : toastTimeout(id)

SpecExpiry ==
    /\ InitToast
    /\ [][NextExpiry]_vars
    /\ WF_vars(toastTick)
    /\ \A id \in ToastIds : WF_vars(toastTimeout(id))

Queued(id) == id \in QueuedIds(toasts)

(* the removal timeout of toast id runs *)
Expired(id) == id \in DOMAIN toastTimers /\ id \notin DOMAIN toastTimers'

(* C33: every queued toast has its removal timeout armed; the timeout runs *)
(* when 5000 ms have passed since the push and removes the toast with its  *)
(* id if it is still queued; whenever the queue shrinks, exactly one toast *)
(* is filtered out of it and the others keep their order; every queued     *)
(* toast eventually leaves the queue.                                      *)
C33_ToastsExpire ==
    /\ [][/\ QueuedIds(toasts') \subseteq DOMAIN toastTimers'
          /\ \A id \in ToastIds : Expired(id) =>
                /\ toastTimers[id] = ToastMs
                /\ toasts' = WithoutToast(toasts, id)
          /\ Len(toasts') < Len(toasts) =>
                \E id \in QueuedIds(toasts) :
                   /\ toasts' = WithoutToast(toasts, id)
                   /\ Len(toasts') = Len(toasts) - 1]_vars
    /\ \A id \in ToastIds : Queued(id) ~> ~Queued(id)

(* the first of two queued toasts has expired after 5000 ms; the second,   *)
(* pushed later, is still in the queue                                     *)
C33_Witness ==
    /\ toastId = 2
    /\ DOMAIN toastTimers = {2}
    /\ toastTimers[2] = ToastTickMs
    /\ Len(toasts) = 1
    /\ toasts[1].id = 2

(* ---------------------------------------------------------------------- *)
(* Specification of overlapping list fetches: the status and priority     *)
(* filters change while earlier fetches are in flight                     *)
(* ---------------------------------------------------------------------- *)
InitRace ==
    InitWith({TRUE}, TotalValues, {"all"}, {"all"}, {"all"}, {"recent"})

NextRace ==
    \/ \E value \in StatusOptions : onStatusChange(value)
    \/ \E value \in PriorityOptions : onPriorityChange(value)
    \/ \E r \in InFlight(listReqs) : serverList(r)
    \/ \E r \in InFlight(listReqs) : fetchListResolved(r)
    \/ \E r \in InFlight(listReqs) : fetchListRejected(r)

SpecRace == InitRace /\ [][NextRace]_vars

(* C30: every list response that lands is put on display, items and total, *)
(* whichever status filter it was requested with and whatever other list   *)
(* requests are in flight or have landed before: the one that lands last   *)
(* is the one shown.                                                       *)
C30_LastLandingShown ==
    [][(ListSettled /\ toastId' = toastId) =>
          \E r \in InFlight(listReqs) :
             /\ ListLanded(r)
             /\ items' = r.items
             /\ listTotal' = r.total
             /\ shownStatus' = r.status]_vars

(* nothing is in flight and no fetch has failed, so the fetch for the      *)
(* status filter now selected has landed; the list shows the response to   *)
(* a fetch issued for the other status, which landed after it              *)
C30_Witness ==
    /\ listReqs = EmptyBag
    /\ toastId = 0
    /\ ~isLoading
    /\ shownStatus # NULL
    /\ shownStatus # statusFilter

(* ---------------------------------------------------------------------- *)
(* Specification of the pagination controls with the list synchroniser,   *)
(* for every total the server may report (filters at their defaults)      *)
(* ---------------------------------------------------------------------- *)
(* other users' items disappear from the server: one page fewer           *)
serverRemoves ==
    /\ serverTotal >= PAGE_SIZE
    /\ serverTotal' = serverTotal - PAGE_SIZE
    /\ UNCHANGED <<discussionVars, modalVars, uploadVars, actorVars, dataVars, isLoading,
                   filterVars, searchVars, page, upvoteLoadingId, toastVars,
                   listReqs, summaryReqs, voteReqs, server, lastControl>>

InitPaging ==
    InitWith({TRUE}, PageTotals, {"all"}, {"all"}, {"all"}, {"recent"})

NextPaging ==
    \/ previousPage
    \/ nextPage
    \/ serverRemoves
    \/ \E r \in InFlight(listReqs) : serverList(r)
    \/ \E r \in InFlight(listReqs) : fetchListResolved(r)
    \/ \E r \in InFlight(listReqs) : fetchListRejected(r)

SpecPaging == InitPaging /\ [][NextPaging]_vars

(* the least k with k * d >= n *)
Ceiling(n, d) == CHOOSE k \in 0..n : k * d >= n /\ (k = 0 \/ (k - 1) * d < n)

TotalPagesIsCeiling == totalPages = Max(1, Ceiling(listTotal, PAGE_SIZE))

(* C12: the page count is max(1, ceiling(total / 12)) for every total; the *)
(* page index grows only by one, only from an index below totalPages-1,    *)
(* and never beyond totalPages-1; it shrinks only by one, only from an     *)
(* index other than 0, and never below 0.                                  *)
C12_Pagination ==
    [][/\ TotalPagesIsCeiling
       /\ TotalPagesIsCeiling'
       /\ page' > page =>
             /\ ~(page >= totalPages - 1)
             /\ page' = page + 1
             /\ page' <= totalPages - 1
       /\ page' < page =>
             /\ page # 0
             /\ page' = page - 1
             /\ page' >= 0]_vars

(* a total of 30 gives three pages, and the last one is displayed *)
C12_Witness ==
    /\ listTotal = 2 * PAGE_SIZE + 6
    /\ totalPages = 3
    /\ page = 2
    /\ lastControl = "page"

(* a list response has landed since mount *)
ListShown == shownStatus # NULL

(* C34 (as claimed): once a list response has landed, the page index is at *)
(* least 0 and at most totalPages - 1.                                     *)
C34_PageWithinRange == ListShown => (0 <= page /\ page <= totalPages - 1)

(* what the code keeps: the page index is never negative, and it exceeds   *)
(* the last page only after a response with a smaller total has landed,    *)
(* never by a step of the page controls                                    *)
C34_PageLeftBehind ==
    [][/\ page' >= 0
       /\ (page' > totalPages' - 1 /\ ~(page > totalPages - 1)) =>
             (page' = page /\ listTotal' < listTotal)]_vars

(* the third page was displayed when a response with a total of 18 landed: *)
(* the index is 2, the last page is 1                                      *)
C34_Witness_Beyond ==
    /\ ListShown
    /\ listReqs = EmptyBag
    /\ page = 2
    /\ listTotal = PAGE_SIZE + 6
    /\ totalPages = 2

(* ---------------------------------------------------------------------- *)
(* Submission dialog                                                      *)
(* ---------------------------------------------------------------------- *)
(* user?.name || "", user?.email || "" *)
userName == IF user THEN <<"x">> ELSE <<>>
userEmail == IF user THEN <<"x">> ELSE <<>>

(* the header button and the quick entry points; the dialog's overlay     *)
(* covers them while it is shown                                          *)
handleOpenModal(type) ==
    /\ ~showModal
    /\ modalType' = type
    /\ submitError' = NULL
    /\ showModal' = TRUE
    /\ form' = MountedForm(type, userName, userEmail)
    /\ UNCHANGED <<isSubmitting, createReqs, submitAwait, discussionVars,
                   uploadVars, actorVars, dataVars, isLoading, filterVars, searchVars, page,
                   upvoteLoadingId, toastVars, listReqs, summaryReqs, voteReqs,
                   serverVars, lastControl>>

(* onClose: setShowModal(false) unmounts the dialog *)
onClose ==
    /\ showModal' = FALSE
    /\ form' = NoForm
    /\ UploaderUnmounted
    /\ UNCHANGED <<modalType, isSubmitting, submitError, createReqs,
                   submitAwait, discussionVars, actorVars, dataVars, isLoading,
                   filterVars, searchVars, page, upvoteLoadingId, toastVars,
                   listReqs, summaryReqs, voteReqs, serverVars, lastControl>>

(* the Escape key *)
escapeKey ==
    /\ showModal
    /\ ~isSubmitting
    /\ onClose

handleOverlayClick_Unguarded ==
    /\ showModal
    /\ onClose

(* a click on the backdrop *)
handleOverlayClick ==
    /\ showModal
    /\ ~isSubmitting
    /\ onClose

(* the close button, disabled={isSubmitting} *)
closeButton ==
    /\ showModal
    /\ ~isSubmitting
    /\ onClose

(* the Cancel button, disabled={isSubmitting} *)
cancelButton ==
    /\ showModal
    /\ ~isSubmitting
    /\ onClose

(* a change of the form's state by one of its inputs *)
FormChange(next) ==
    /\ showModal
    /\ next # form
    /\ form' = next
    /\ UNCHANGED <<showModal, modalType, isSubmitting, submitError,
                   createReqs, submitAwait, discussionVars, uploadVars, actorVars, dataVars,
                   isLoading, filterVars, searchVars, page, upvoteLoadingId,
                   toastVars, listReqs, summaryReqs, voteReqs, serverVars>>

NoMeta == [key \in MetaKeys |-> <<>>]

TypeSwitched_KeepsMeta(value) == [form EXCEPT !.formType = value]

(* setFormType followed by the effect on [formType] *)
TypeSwitched(value) ==
    [form EXCEPT !.formType = value, !.meta = NoMeta, !.referenceUrl = <<>>,
                 !.fileAttachments = <<>>]

(* onChange of the Type select *)
setFormType(value) ==
    /\ FormChange(TypeSwitched(value))
    /\ lastControl' = "formType"

setTitle(value) ==
    /\ FormChange([form EXCEPT !.title = value])
    /\ UNCHANGED lastControl

setDescription(value) ==
    /\ FormChange([form EXCEPT !.description = value])
    /\ UNCHANGED lastControl

(* the model fields are rendered for the model_request type *)
setModelName(value) ==
    /\ form.formType = "model_request"
    /\ FormChange([form EXCEPT !.modelName = value])
    /\ UNCHANGED lastControl

setModelProvider(value) ==
    /\ form.formType = "model_request"
    /\ FormChange([form EXCEPT !.modelProvider = value])
    /\ UNCHANGED lastControl

setName(value) ==
    /\ FormChange([form EXCEPT !.name = value])
    /\ UNCHANGED lastControl

setEmail(value) ==
    /\ FormChange([form EXCEPT !.email = value])
    /\ UNCHANGED lastControl

(* the use_case field is rendered for the model_request type *)
updateMeta(key, value) ==
    /\ form.formType = "model_request"
    /\ FormChange([form EXCEPT !.meta[key] = value])
    /\ UNCHANGED lastControl

setReferenceUrl(value) ==
    /\ FormChange([form EXCEPT !.referenceUrl = value])
    /\ UNCHANGED lastControl

(* onChange of the Environment select *)
setEnvironment(value) ==
    /\ FormChange([form EXCEPT !.environment = value])
    /\ UNCHANGED lastControl

(* onChange of FileUpload (disabled while submitting): a finished upload  *)
(* is appended, or the attachment is removed                              *)
setFileAttachments(value) ==
    /\ ~isSubmitting
    /\ FormChange([form EXCEPT !.fileAttachments = value])
    /\ UNCHANGED lastControl

modelInfoRequired ==
    /\ form.formType = "model_request"
    /\ Len(Trim(form.modelName)) = 0
    /\ Len(Trim(form.modelProvider)) = 0

canSubmit_Untrimmed ==
    /\ ~isSubmitting
    /\ Len(form.title) >= TITLE_MIN
    /\ Len(form.description) >= DESC_MIN
    /\ ~modelInfoRequired

canSubmit ==
    /\ ~isSubmitting
    /\ Len(Trim(form.title)) >= TITLE_MIN
    /\ Len(Trim(form.description)) >= DESC_MIN
    /\ ~modelInfoRequired

(* the attachment synthesized for the reference link *)
LinkAttachment(url) ==
    [id |-> "", name |-> url, stored_name |-> "", type |-> "link", size |-> 0,
     storage |-> "link", path |-> url]

(* the entries of meta with a non-blank value, trimmed *)
PayloadMetadata_Untrimmed ==
    [key \in {k \in MetaKeys : form.meta[k] # <<>>} |-> form.meta[key]]

PayloadMetadata ==
    [key \in {k \in MetaKeys : Trim(form.meta[k]) # <<>>} |->
        Trim(form.meta[key])]

(* the uploaded files followed by the reference link, if any *)
allAttachments ==
    form.fileAttachments
    \o (IF Trim(form.referenceUrl) # <<>>
        THEN <<LinkAttachment(Trim(form.referenceUrl))>> ELSE <<>>)

(* the payload handed to onSubmit, without the keys that are undefined *)
CreatePayload ==
    LET metadata == PayloadMetadata
        fields ==
            [type |-> form.formType, title |-> form.title,
             description |-> form.description,
             model_name |-> form.modelName,
             model_provider |-> form.modelProvider,
             user_email |-> form.email, user_name |-> form.name,
             metadata |-> metadata, attachments |-> allAttachments,
             environment |-> form.environment]
        defined ==
            {"type", "title", "description"}
            \cup (IF form.formType = "model_request"
                  THEN {"model_name", "model_provider"} ELSE {})
            \cup (IF form.email # <<>> THEN {"user_email"} ELSE {})
            \cup (IF form.name # <<>> THEN {"user_name"} ELSE {})
            \cup (IF DOMAIN metadata # {} THEN {"metadata"} ELSE {})
            \cup (IF allAttachments # <<>> THEN {"attachments"} ELSE {})
            \cup (IF form.environment # "" THEN {"environment"} ELSE {})
    IN  [key \in defined |-> fields[key]]

NewCreateReq(payload) == [payload |-> payload, applied |-> FALSE]

(* the Submit button: handleSubmit, then handleSubmitFeedback up to its   *)
(* first await                                                            *)
handleSubmit ==
    /\ showModal
    /\ lastControl' = "submit"
    /\ IF ~canSubmit
       THEN UNCHANGED <<isSubmitting, submitError, createReqs, submitAwait>>
       ELSE /\ Room(1)
            /\ isSubmitting' = TRUE
            /\ submitError' = NULL
            /\ createReqs' = createReqs (+) One(NewCreateReq(CreatePayload))
            /\ submitAwait' = "create"
    /\ UNCHANGED <<showModal, modalType, form, discussionVars, uploadVars, actorVars, dataVars,
                   isLoading, filterVars, searchVars, page, upvoteLoadingId,
                   toastVars, listReqs, summaryReqs, voteReqs, serverVars>>

(* the server stores the new item *)
serverCreate(r) ==
    /\ r \in InFlight(createReqs)
    /\ ~r.applied
    /\ serverTotal < Cardinality(ItemIds) + MaxCreated
    /\ createReqs' = (createReqs (-) One(r)) (+) One([r EXCEPT !.applied = TRUE])
    /\ serverTotal' = serverTotal + 1
    /\ UNCHANGED <<showModal, modalType, isSubmitting, submitError, form,
                   submitAwait, discussionVars, uploadVars, actorVars, dataVars, isLoading,
                   filterVars, searchVars, page, upvoteLoadingId, toastVars,
                   listReqs, summaryReqs, voteReqs, server, lastControl>>

handleSubmitFeedbackCreated_StaysOpen(r) ==
    /\ r \in InFlight(createReqs)
    /\ r.applied
    /\ pushToastsUpTo(MaxNotices, << <<"Feedback submitted", "success">> >>)
    /\ isLoading' = TRUE
    /\ listReqs' = listReqs (+) One(AwaitedListReq("submit"))
    /\ submitAwait' = "list"
    /\ createReqs' = createReqs (-) One(r)
    /\ UNCHANGED <<modalType, isSubmitting, submitError, discussionVars, uploadVars, actorVars,
                   dataVars, filterVars, searchVars, page, upvoteLoadingId,
                   summaryReqs, voteReqs, serverVars, lastControl,
                   showModal, form>>

(* handleSubmitFeedback: await api.createFeedback resolved; the dialog is *)
(* closed, the toast pushed and fetchList called and awaited              *)
handleSubmitFeedbackCreated(r) ==
    /\ r \in InFlight(createReqs)
    /\ r.applied
    /\ showModal' = FALSE
    /\ form' = NoForm
    /\ UploaderUnmounted
    /\ pushToastsUpTo(MaxNotices, << <<"Feedback submitted", "success">> >>)
    /\ isLoading' = TRUE
    /\ listReqs' = listReqs (+) One(AwaitedListReq("submit"))
    /\ submitAwait' = "list"
    /\ createReqs' = createReqs (-) One(r)
    /\ UNCHANGED <<modalType, isSubmitting, submitError, discussionVars, actorVars,
                   dataVars, filterVars, searchVars, page, upvoteLoadingId,
                   summaryReqs, voteReqs, serverVars, lastControl>>

handleSubmitFeedbackRejected_ClosesDialog(r, err) ==
    /\ r \in InFlight(createReqs)
    /\ submitError' = parseApiError(err)
    /\ isSubmitting' = FALSE
    /\ submitAwait' = NULL
    /\ createReqs' = createReqs (-) One(r)
    /\ showModal' = FALSE
    /\ form' = NoForm
    /\ UNCHANGED <<modalType, discussionVars, uploadVars, actorVars, dataVars,
                   isLoading, filterVars, searchVars, page, upvoteLoadingId,
                   toastVars, listReqs, summaryReqs, voteReqs, serverVars,
                   lastControl>>

(* handleSubmitFeedback: await api.createFeedback rejected with err:      *)
(* catch body, then finally                                               *)
handleSubmitFeedbackRejected(r, err) ==
    /\ r \in InFlight(createReqs)
    /\ submitError' = parseApiError(err)
    /\ isSubmitting' = FALSE
    /\ submitAwait' = NULL
    /\ createReqs' = createReqs (-) One(r)
    /\ UNCHANGED <<showModal, modalType, form, discussionVars, uploadVars, actorVars, dataVars,
                   isLoading, filterVars, searchVars, page, upvoteLoadingId,
                   toastVars, listReqs, summaryReqs, voteReqs, serverVars,
                   lastControl>>

(* handleSubmitFeedback: the awaited fetchList resolved with a response;  *)
(* fetchSummary is called and awaited                                     *)
handleSubmitFeedbackListResolved(r) ==
    /\ r \in InFlight(listReqs)
    /\ r.served
    /\ Awaiter(r) = "submit"
    /\ items' = r.items
    /\ listTotal' = r.total
    /\ shownStatus' = r.status
    /\ isLoading' = FALSE
    /\ listReqs' = listReqs (-) One(r)
    /\ fetchSummary
    /\ submitAwait' = "summary"
    /\ UNCHANGED <<showModal, modalType, isSubmitting, submitError, form,
                   createReqs, discussionVars, uploadVars, actorVars, summary, filterVars,
                   searchVars, page, upvoteLoadingId, toastVars, voteReqs,
                   serverVars, lastControl>>

(* handleSubmitFeedback: the awaited fetchList caught a rejection (its    *)
(* error toast); fetchSummary is called and awaited                       *)
handleSubmitFeedbackListRejected(r) ==
    /\ r \in InFlight(listReqs)
    /\ Awaiter(r) = "submit"
    /\ pushToastsUpTo(MaxNotices, << <<"list_error", "error">> >>)
    /\ isLoading' = FALSE
    /\ listReqs' = listReqs (-) One(r)
    /\ fetchSummary
    /\ submitAwait' = "summary"
    /\ UNCHANGED <<showModal, modalType, isSubmitting, submitError, form,
                   createReqs, discussionVars, uploadVars, actorVars, dataVars, filterVars,
                   searchVars, page, upvoteLoadingId, voteReqs, serverVars,
                   lastControl>>

(* handleSubmitFeedback: the awaited fetchSummary settled (data stored,   *)
(* or null on a rejection); then the finally block                        *)
handleSubmitFeedbackSummarySettled(data) ==
    /\ submitAwait = "summary"
    /\ summaryReqs >= AwaitedSummaries
    /\ summaryReqs' = summaryReqs - 1
    /\ summary' = data
    /\ isSubmitting' = FALSE
    /\ submitAwait' = NULL
    /\ UNCHANGED <<showModal, modalType, submitError, form, createReqs,
                   discussionVars, uploadVars, actorVars, items, listTotal, shownStatus,
                   isLoading, filterVars, searchVars, page, upvoteLoadingId, toastVars,
                   listReqs, voteReqs, serverVars, lastControl>>

(* ---------------------------------------------------------------------- *)
(* Attachment uploader (FileUpload, mounted inside the dialog)            *)
(* ---------------------------------------------------------------------- *)
(* toLowerCase, on the words of the file names used here *)
Lower(word) == IF word = "PNG" THEN "png" ELSE word

(* name.lastIndexOf("."), counted from 1; 0 when there is no dot *)
LastDot(name) ==
    LET dots == {k \in 1..Len(name) : name[k] = "."}
    IN  IF dots = {} THEN 0 ELSE CHOOSE k \in dots : \A j \in dots : j <= k

getExtension(name) ==
    LET dot == LastDot(name)
    IN  IF dot > 0
        THEN [k \in 1..(Len(name) - dot + 1) |-> Lower(name[dot + k - 1])]
        ELSE <<>>

Uploading(records) == SelectSeq(records, LAMBDA p : p.status = "uploading")

totalCount == Len(form.fileAttachments) + Len(Uploading(pending))

(* the identities of the File objects that are still referenced *)
UsedIds ==
    {pending[k].file.id : k \in 1..Len(pending)}
    \cup {form.fileAttachments[k].id : k \in 1..Len(form.fileAttachments)}
    \cup UNION {{u.attachments[k].id : k \in 1..Len(u.attachments)} : u \in uploads}
    \cup UNION {{u.files[k].id : k \in 1..Len(u.files)} : u \in uploads}

RECURSIVE Ascending(_)
Ascending(S) ==
    IF S = {} THEN <<>>
    ELSE LET least == CHOOSE x \in S : \A y \in S : x <= y
         IN  <<least>> \o Ascending(S \ {least})

FreeIds == Ascending({k \in 1..Len(FileIds) : FileIds[k] \notin UsedIds})

(* the File objects the browser hands over for files of the given shapes *)
PickedFiles(shapes) ==
    [k \in 1..Len(shapes) |-> File(FileIds[FreeIds[k]], shapes[k])]

(* the error of the validation loop for file f, if any *)
ValidationError_SizeFirst(f) ==
    IF f.size > MAX_FILE_SIZE THEN [kind |-> "size", about |-> f.name]
    ELSE IF getExtension(f.name) \notin ALLOWED_EXTENSIONS
    THEN [kind |-> "type", about |-> getExtension(f.name)]
    ELSE NoUploadError

ValidationError(f) ==
    IF getExtension(f.name) \notin ALLOWED_EXTENSIONS
    THEN [kind |-> "type", about |-> getExtension(f.name)]
    ELSE IF f.size > MAX_FILE_SIZE THEN [kind |-> "size", about |-> f.name]
    ELSE NoUploadError

(* the first file of the batch that the validation loop stops at *)
FirstInvalid_Last(batch) ==
    LET invalid == {k \in 1..Len(batch) : ValidationError(batch[k]) # NoUploadError}
    IN  CHOOSE k \in invalid : \A j \in invalid : j <= k

FirstInvalid(batch) ==
    LET invalid == {k \in 1..Len(batch) : ValidationError(batch[k]) # NoUploadError}
    IN  CHOOSE k \in invalid : \A j \in invalid : k <= j

NewPending(file) ==
    [file |-> file, status |-> "uploading", meta |-> <<>>, error |-> <<>>]

NewUpload(batch) ==
    [attachments |-> form.fileAttachments, files |-> batch,
     results |-> [k \in 1..Len(batch) |-> "uploading"]]

(* fileArray.slice(0, remaining) *)
Truncated_Whole(files, remaining) == files

Truncated(files, remaining) == SubSeq(files, 1, Min(remaining, Len(files)))

(* remaining <= 0 *)
NoSlotLeft_Never(remaining) == FALSE

NoSlotLeft(remaining) == remaining <= 0

(* uploadFiles up to its await *)
uploadFiles(files) ==
    LET remaining == MAX_FILES - Len(form.fileAttachments)
        batch == Truncated(files, remaining)
        invalid == {k \in 1..Len(batch) : ValidationError(batch[k]) # NoUploadError}
    IN  IF NoSlotLeft(remaining)
        THEN /\ error' = [kind |-> "max", about |-> <<>>]
             /\ UNCHANGED <<pending, uploads>>
        ELSE IF invalid # {}
        THEN /\ error' = ValidationError(batch[FirstInvalid(batch)])
             /\ UNCHANGED <<pending, uploads>>
        ELSE /\ Len(pending) + Len(batch) <= MaxPending
             /\ Cardinality(uploads) + BagCardinality(purgeTimers) < MaxPending
             /\ error' = NoUploadError
             /\ pending' = pending \o [k \in 1..Len(batch) |-> NewPending(batch[k])]
             /\ uploads' = uploads \cup {NewUpload(batch)}

(* the drop zone takes pointer events while the dialog is not submitting  *)
(* and totalCount is below the maximum                                    *)
DropZoneActive ==
    /\ showModal
    /\ ~pickerOpen
    /\ ~isSubmitting
    /\ totalCount < MAX_FILES

(* files dropped on the drop zone *)
handleDrop(shapes) ==
    /\ DropZoneActive
    /\ shapes # <<>>
    /\ Len(shapes) <= Len(FreeIds)
    /\ uploadFiles(PickedFiles(shapes))
    /\ uploadCall' = [shapes |-> shapes, turn |-> 1 - uploadCall.turn]
    /\ UNCHANGED <<purgeTimers, pickerOpen, modalVars, discussionVars, actorVars,
                   dataVars, isLoading, filterVars, searchVars, page,
                   upvoteLoadingId, toastVars, listReqs, summaryReqs, voteReqs,
                   serverVars, lastControl>>

(* a click on the drop zone opens the file chooser *)
handleClick ==
    /\ DropZoneActive
    /\ pickerOpen' = TRUE
    /\ UNCHANGED <<pending, error, uploads, purgeTimers, uploadCall, modalVars,
                   discussionVars, actorVars, dataVars, isLoading, filterVars,
                   searchVars, page, upvoteLoadingId, toastVars, listReqs,
                   summaryReqs, voteReqs, serverVars, lastControl>>

(* the file chooser is closed with the files chosen (none: nothing is     *)
(* uploaded)                                                              *)
handleFileChange(shapes) ==
    /\ showModal
    /\ pickerOpen
    /\ Len(shapes) <= Len(FreeIds)
    /\ IF shapes # <<>>
       THEN /\ uploadFiles(PickedFiles(shapes))
            /\ uploadCall' = [shapes |-> shapes, turn |-> 1 - uploadCall.turn]
       ELSE UNCHANGED <<pending, error, uploads, uploadCall>>
    /\ pickerOpen' = FALSE
    /\ UNCHANGED <<purgeTimers, modalVars, discussionVars, actorVars, dataVars,
                   isLoading, filterVars, searchVars, page, upvoteLoadingId,
                   toastVars, listReqs, summaryReqs, voteReqs, serverVars,
                   lastControl>>

(* the remove button of an attachment, rendered while not submitting *)
removeAttachment(id) ==
    /\ showModal
    /\ ~pickerOpen
    /\ ~isSubmitting
    /\ \E k \in 1..Len(form.fileAttachments) : form.fileAttachments[k].id = id
    /\ form' = [form EXCEPT !.fileAttachments =
                                SelectSeq(@, LAMBDA a : a.id # id)]
    /\ UNCHANGED <<showModal, modalType, isSubmitting, submitError, createReqs,
                   submitAwait, uploadVars, discussionVars, actorVars, dataVars,
                   isLoading, filterVars, searchVars, page, upvoteLoadingId,
                   toastVars, listReqs, summaryReqs, voteReqs, serverVars,
                   lastControl>>

(* the message of a failed upload *)
UploadFailures == {[isError |-> TRUE, message |-> "timeout"]}
UploadMessage(err) == IF err.isError THEN err.message ELSE "Upload failed"

(* the metadata of the fulfilled uploads of a batch, in batch order *)
Successful(files, results) ==
    LET fulfilled == SelectSeq([k \in 1..Len(files) |-> k],
                               LAMBDA k : results[k] = "fulfilled")
    IN  [i \in 1..Len(fulfilled) |-> UploadedMeta(files[fulfilled[i]])]

(* the caller's list after a batch has settled *)
Propagated_AllOrNothing(upload, results) ==
    IF \A k \in 1..Len(results) : results[k] = "fulfilled"
    THEN upload.attachments \o Successful(upload.files, results)
    ELSE form.fileAttachments

Propagated_OntoCurrent(upload, results) ==
    form.fileAttachments \o Successful(upload.files, results)

Propagated(upload, results) ==
    IF Successful(upload.files, results) # <<>>
    THEN upload.attachments \o Successful(upload.files, results)
    ELSE form.fileAttachments

(* upload number k of the batch settles: its pending record is updated;   *)
(* when it is the last of the batch to settle, Promise.allSettled         *)
(* resolves and uploadFiles runs to its end                               *)
UploadSettled(upload, k, result, status, meta, message) ==
    LET file == upload.files[k]
        results == [upload.results EXCEPT ![k] = result]
    IN  /\ upload \in uploads
        /\ upload.results[k] = "uploading"
        /\ pending' = [i \in 1..Len(pending) |->
                          IF pending[i].file = file
                          THEN [pending[i] EXCEPT !.status = status,
                                                  !.meta = meta,
                                                  !.error = message]
                          ELSE pending[i]]
        /\ IF \A j \in 1..Len(results) : results[j] # "uploading"
           THEN /\ uploads' = uploads \ {upload}
                /\ form' = [form EXCEPT !.fileAttachments =
                                            Propagated(upload, results)]
                /\ purgeTimers' = purgeTimers (+) One(0)
           ELSE /\ uploads' = (uploads \ {upload})
                                \cup {[upload EXCEPT !.results = results]}
                /\ UNCHANGED <<form, purgeTimers>>
        /\ UNCHANGED <<error, pickerOpen, uploadCall, showModal, modalType, isSubmitting,
                       submitError, createReqs, submitAwait, discussionVars,
                       actorVars, dataVars, isLoading, filterVars, searchVars, page,
                       upvoteLoadingId, toastVars, listReqs, summaryReqs,
                       voteReqs, serverVars, lastControl>>

(* api.uploadAttachment(file) resolved *)
uploadAttachmentResolved(upload, k) ==
    UploadSettled(upload, k, "fulfilled", "done",
                  <<UploadedMeta(upload.files[k])>>, <<>>)

(* api.uploadAttachment(file) rejected with err *)
uploadAttachmentRejected(upload, k, err) ==
    UploadSettled(upload, k, "rejected", "error", <<>>, <<UploadMessage(err)>>)

(* the delay of the armed clean-up timeouts passes *)
cleanupTick ==
    /\ purgeTimers # EmptyBag
    /\ CopiesIn(CleanupMs, purgeTimers) = 0
    /\ purgeTimers' = BagOfAll(LAMBDA t : CleanupMs, purgeTimers)
    /\ UNCHANGED <<pending, error, uploads, pickerOpen, uploadCall, modalVars,
                   discussionVars, actorVars, dataVars, isLoading, filterVars,
                   searchVars, page, upvoteLoadingId, toastVars, listReqs,
                   summaryReqs, voteReqs, serverVars, lastControl>>

cleanupTimeout_PurgesAll ==
    /\ CopiesIn(CleanupMs, purgeTimers) > 0
    /\ purgeTimers' = purgeTimers (-) One(CleanupMs)
    /\ pending' = <<>>
    /\ UNCHANGED <<error, uploads, pickerOpen, uploadCall, modalVars, discussionVars, actorVars,
                   dataVars, isLoading, filterVars, searchVars, page,
                   upvoteLoadingId, toastVars, listReqs, summaryReqs, voteReqs,
                   serverVars, lastControl>>

(* the callback of setTimeout(..., 2000) *)
cleanupTimeout ==
    /\ CopiesIn(CleanupMs, purgeTimers) > 0
    /\ purgeTimers' = purgeTimers (-) One(CleanupMs)
    /\ pending' = Uploading(pending)
    /\ UNCHANGED <<error, uploads, pickerOpen, uploadCall, modalVars, discussionVars, actorVars,
                   dataVars, isLoading, filterVars, searchVars, page,
                   upvoteLoadingId, toastVars, listReqs, summaryReqs, voteReqs,
                   serverVars, lastControl>>

(* ---------------------------------------------------------------------- *)
(* Specification of the attachment uploader in an open dialog             *)
(* ---------------------------------------------------------------------- *)
(* the batches of files dropped: a valid file, a valid file before an    *)
(* invalid one, and invalid files first; and what is chosen in the file  *)
(* chooser: a valid file, or nothing                                     *)
Batches ==
    {<<GoodFile>>, <<GoodFile, TooBigFile>>, <<TooBigFile, BadTypeFile>>,
     <<BadTypeFile>>}
Choices == {<<GoodFile>>, <<>>}

InitUpload ==
    InitWith({TRUE}, {Cardinality(ItemIds)}, {"all"}, {"all"}, {"all"}, {"recent"})

NextUpload ==
    \/ handleOpenModal("bug_report")
    \/ \E shapes \in Batches : handleDrop(shapes)
    \/ handleClick
    \/ \E shapes \in Choices : handleFileChange(shapes)
    \/ \E id \in UsedIds : removeAttachment(id)
    \/ \E upload \in uploads : \E k \in 1..Len(upload.files) :
          uploadAttachmentResolved(upload, k)
    \/ cleanupTick
    \/ cleanupTimeout

SpecUpload == InitUpload /\ [][NextUpload]_vars

(* ---------------------------------------------------------------------- *)
(* Specification of the settling of uploads: valid files dropped on an    *)
(* open dialog, uploads that succeed or fail, and the clean-up timeout    *)
(* ---------------------------------------------------------------------- *)
ValidBatches == {<<GoodFile>>, <<GoodFile, GoodFile>>}

InitSettle ==
    InitWith({TRUE}, {Cardinality(ItemIds)}, {"all"}, {"all"}, {"all"}, {"recent"})

NextSettle ==
    \/ handleOpenModal("bug_report")
    \/ \E shapes \in ValidBatches : handleDrop(shapes)
    \/ \E upload \in uploads : \E k \in 1..Len(upload.files) :
          uploadAttachmentResolved(upload, k)
    \/ \E upload \in uploads : \E k \in 1..Len(upload.files) :
          \E err \in UploadFailures : uploadAttachmentRejected(upload, k, err)
    \/ cleanupTick
    \/ cleanupTimeout

SpecSettle == InitSettle /\ [][NextSettle]_vars

(* uploadFiles was called in this step, with the files Presented *)
UploadCalled == uploadCall'.turn # uploadCall.turn
Presented == PickedFiles(uploadCall'.shapes)
Remaining == MAX_FILES - Len(form.fileAttachments)

(* the file passes the validation loop *)
Valid(f) ==
    /\ getExtension(f.name) \in ALLOWED_EXTENSIONS
    /\ f.size <= MAX_FILE_SIZE

(* nothing is uploaded and the caller's list is as it was *)
BatchRejected ==
    /\ error' # NoUploadError
    /\ pending' = pending
    /\ uploads' = uploads
    /\ form' = form

(* C23: a call of uploadFiles with three or more files attached sets the   *)
(* error, creates no pending record, issues no upload and leaves the       *)
(* attachment list as it was.                                              *)
C23_FullRejectsBatch ==
    [][(UploadCalled /\ Len(form.fileAttachments) >= MAX_FILES) =>
          (BatchRejected /\ error'.kind = "max")]_vars

(* three files are attached and the batch chosen after that was rejected   *)
C23_Witness ==
    /\ Len(form.fileAttachments) = MAX_FILES
    /\ error.kind = "max"
    /\ uploadCall.shapes = <<GoodFile>>
    /\ uploads = {}

(* the pending records and the uploads that a step adds for batch *)
BatchStarted(batch) ==
    /\ error' = NoUploadError
    /\ pending' = pending \o [k \in 1..Len(batch) |->
                                [file |-> batch[k], status |-> "uploading",
                                 meta |-> <<>>, error |-> <<>>]]
    /\ uploads' = uploads \cup
                    {[attachments |-> form.fileAttachments, files |-> batch,
                      results |-> [k \in 1..Len(batch) |-> "uploading"]]}
    /\ form' = form

(* C24: a call of uploadFiles with more files than slots remain treats the *)
(* first remaining-slots files only: if those are valid they are uploaded  *)
(* and no error is set, whatever the other files are; if one of them is    *)
(* invalid the error is the one of that file.                              *)
C24_TruncatedSilently ==
    [][(UploadCalled /\ Remaining > 0 /\ Len(Presented) > Remaining) =>
          LET batch == SubSeq(Presented, 1, Remaining)
          IN  /\ (\A k \in 1..Remaining : Valid(batch[k])) => BatchStarted(batch)
              /\ error'.kind # "max"
              /\ error'.kind # "none" =>
                    \E k \in 1..Remaining : ~Valid(batch[k])]_vars

(* with two files attached a valid file and a file too large were chosen:  *)
(* the valid one is uploading and no error is shown                        *)
C24_Witness ==
    /\ uploadCall.shapes = <<GoodFile, TooBigFile>>
    /\ error = NoUploadError
    /\ \E u \in uploads : Len(u.attachments) = MAX_FILES - 1 /\ Len(u.files) = 1
    /\ Len(Uploading(pending)) = 1

(* C25: a call of uploadFiles with a slot left uploads the truncated batch *)
(* only if every file of it has an allowed extension and the size allowed; *)
(* otherwise the error names the first file that has not (its extension,   *)
(* or else its size), no pending record is created, no upload is issued    *)
(* and the attachment list is as it was.                                   *)
C25_ValidatedBeforeUpload ==
    [][(UploadCalled /\ Remaining > 0) =>
          LET batch == SubSeq(Presented, 1, Min(Remaining, Len(Presented)))
              bad == {k \in 1..Len(batch) : ~Valid(batch[k])}
              first == CHOOSE k \in bad : \A j \in bad : k <= j
          IN  IF bad = {} THEN BatchStarted(batch)
              ELSE /\ BatchRejected
                   /\ error' =
                        IF getExtension(batch[first].name) \notin ALLOWED_EXTENSIONS
                        THEN [kind |-> "type",
                              about |-> getExtension(batch[first].name)]
                        ELSE [kind |-> "size", about |-> batch[first].name]]_vars

(* a file too large was dropped before an executable: the error is about   *)
(* the size of the first and nothing is uploading                          *)
C25_Witness ==
    /\ uploadCall.shapes = <<TooBigFile, BadTypeFile>>
    /\ error = [kind |-> "size", about |-> TooBigFile.name]
    /\ uploads = {}
    /\ pending = <<>>
    /\ form.fileAttachments = <<>>

(* the attachments of the form *)
Attached(f) == {f.fileAttachments[k] : k \in 1..Len(f.fileAttachments)}

(* the upload of file settled with result: its pending records moved from *)
(* uploading to done or error, the others are as they were                 *)
PendingMoved(file, result) ==
    /\ Len(pending') = Len(pending)
    /\ \E i \in 1..Len(pending) : pending[i].file = file
    /\ \A i \in 1..Len(pending) :
          IF pending[i].file = file
          THEN /\ pending[i].status = "uploading"
               /\ pending'[i].file = file
               /\ IF result = "fulfilled"
                  THEN /\ pending'[i].status = "done"
                       /\ pending'[i].meta = <<UploadedMeta(file)>>
                  ELSE /\ pending'[i].status = "error"
                       /\ pending'[i].error # <<>>
          ELSE pending'[i] = pending[i]

(* the results of upload u after the step: those of its record in         *)
(* uploads', or, when the batch has settled, those of u with its last     *)
(* upload as the pending record tells                                     *)
ResultsAfter(u) ==
    IF \E v \in uploads' : v.files = u.files
    THEN (CHOOSE v \in uploads' : v.files = u.files).results
    ELSE [k \in 1..Len(u.files) |->
            IF u.results[k] # "uploading" THEN u.results[k]
            ELSE IF \E i \in 1..Len(pending') :
                        /\ pending'[i].file = u.files[k]
                        /\ pending'[i].status = "done"
                 THEN "fulfilled" ELSE "rejected"]

BatchSettled(u) == u \in uploads /\ ~\E v \in uploads' : v.files = u.files

(* C26: every pending record is created uploading; a step that settles an  *)
(* upload moves the pending record of its file to done with the metadata   *)
(* returned, or to error with a message, and leaves the other records and  *)
(* the results of the sibling uploads as they were; when the batch has     *)
(* settled, every fulfilled upload of it is in the attachment list,        *)
(* whatever happened to its siblings.                                      *)
C26_SettleIndependently ==
    [][/\ Len(pending') > Len(pending) =>
             \A i \in (Len(pending) + 1)..Len(pending') :
                 pending'[i].status = "uploading"
       /\ \A u \in uploads \ uploads' :
             LET after == ResultsAfter(u)
                 changed == {k \in 1..Len(u.files) : after[k] # u.results[k]}
             IN  /\ Cardinality(changed) = 1
                 /\ \A k \in changed :
                       /\ u.results[k] = "uploading"
                       /\ PendingMoved(u.files[k], after[k])
                 /\ BatchSettled(u) =>
                       \A k \in 1..Len(u.files) :
                           after[k] = "fulfilled" =>
                               UploadedMeta(u.files[k]) \in Attached(form')]_vars

(* of a batch of two the first upload failed and the second succeeded: the *)
(* second file is attached                                                 *)
C26_Witness ==
    /\ Len(pending) = 2
    /\ pending[1].status = "error"
    /\ pending[2].status = "done"
    /\ form.fileAttachments = <<UploadedMeta(pending[2].file)>>
    /\ uploads = {}

(* the step in which batch u settles appends its fulfilled uploads to base *)
SettledOnto(u, base) ==
    LET successful == Successful(u.files, ResultsAfter(u))
    IN  form'.fileAttachments =
            IF successful = <<>> THEN form.fileAttachments
            ELSE base \o successful

(* C27 (as claimed): when a batch has settled, the attachment list is the  *)
(* list before that step followed by the fulfilled uploads of the batch,   *)
(* each once, in the order of the batch whatever the order of settling;    *)
(* the list is as it was when no upload was fulfilled.                     *)
C27_AppendedToList ==
    [][\A u \in uploads : BatchSettled(u) =>
          SettledOnto(u, form.fileAttachments)]_vars

(* what the code does: the fulfilled uploads are appended to the list that *)
(* was attached when the batch was started                                 *)
C27_AppendedToListAtStart ==
    [][\A u \in uploads : BatchSettled(u) => SettledOnto(u, u.attachments)]_vars

(* two batches were in flight together and both have settled with success: *)
(* only the file of the batch that settled last is attached                *)
C27_Witness_LostUpload ==
    /\ Len(pending) = 2
    /\ pending[1].status = "done"
    /\ pending[2].status = "done"
    /\ uploads = {}
    /\ Len(form.fileAttachments) = 1
    /\ uploadCall.shapes = <<GoodFile>>

(* the ids of the attachments of a list *)
AttachedIn(list) == {list[k].id : k \in 1..Len(list)}

(* C37 (as claimed): no update of the attachment list is lost when a batch  *)
(* settles: every attachment of the list before the step is in the list    *)
(* after it, and every attachment of the list after it was in the list     *)
(* before it or is a fulfilled upload of the batch, so a removed            *)
(* attachment stays removed.                                               *)
C37_NoUpdateLost ==
    [][\A u \in uploads : BatchSettled(u) =>
          LET successful == Successful(u.files, ResultsAfter(u))
          IN  /\ AttachedIn(form.fileAttachments)
                    \subseteq AttachedIn(form'.fileAttachments)
              /\ AttachedIn(form'.fileAttachments)
                    \subseteq AttachedIn(form.fileAttachments)
                              \cup AttachedIn(successful)]_vars

(* the two halves of it: what was attached stays, what was removed stays   *)
(* removed                                                                 *)
C37_AttachedStays ==
    [][\A u \in uploads : BatchSettled(u) =>
          AttachedIn(form.fileAttachments)
              \subseteq AttachedIn(form'.fileAttachments)]_vars

C37_RemovedStaysRemoved ==
    [][\A u \in uploads : BatchSettled(u) =>
          AttachedIn(form'.fileAttachments)
              \subseteq AttachedIn(form.fileAttachments)
                        \cup AttachedIn(Successful(u.files, ResultsAfter(u)))]_vars

(* what the code does: a settlement with a fulfilled upload puts back the  *)
(* list of the render in which the batch was started                       *)
C37_StartListRestored ==
    [][\A u \in uploads :
          BatchSettled(u) /\ Successful(u.files, ResultsAfter(u)) # <<>> =>
              AttachedIn(u.attachments)
                  \subseteq AttachedIn(form'.fileAttachments)]_vars

(* an attachment was removed while a batch started with it is in flight *)
C37_Witness_RemovedInFlight ==
    \E u \in uploads :
        /\ u.attachments # <<>>
        /\ form.fileAttachments = <<>>

(* C28: the clean-up timeout is armed in the step in which a batch has     *)
(* settled and fires when its two seconds have passed; the step in which   *)
(* it fires removes the pending records that are not uploading, keeps the  *)
(* ones uploading and leaves the attachment list and the uploads alone;    *)
(* pending records are removed by no other step.                           *)
C28_PurgeAfterTwoSeconds ==
    [][/\ (\E u \in uploads : BatchSettled(u)) <=>
             purgeTimers' = purgeTimers (+) One(0)
       /\ BagCardinality(purgeTimers') < BagCardinality(purgeTimers) =>
             /\ purgeTimers' = purgeTimers (-) One(CleanupMs)
             /\ CopiesIn(CleanupMs, purgeTimers) > 0
             /\ pending' = SelectSeq(pending, LAMBDA p : p.status = "uploading")
             /\ form' = form
             /\ uploads' = uploads
       /\ Len(pending') < Len(pending) =>
             BagCardinality(purgeTimers') < BagCardinality(purgeTimers)]_vars

(* a batch has settled and its timeout has fired while a later upload was  *)
(* in flight: the attachment is kept and the only pending record is the    *)
(* one uploading                                                           *)
C28_Witness ==
    /\ purgeTimers = EmptyBag
    /\ Len(form.fileAttachments) = 1
    /\ Len(pending) = 1
    /\ pending[1].status = "uploading"
    /\ uploads # {}

(* ---------------------------------------------------------------------- *)
(* Specification of the validation gate: the type, the title, the         *)
(* description and the model fields of the form, up to the settling of    *)
(* the create request                                                     *)
(* ---------------------------------------------------------------------- *)
InitGate ==
    InitWith({TRUE}, {Cardinality(ItemIds)}, {"all"}, {"all"}, {"all"}, {"recent"})

NextGate ==
    \/ \E type \in FormTypes : handleOpenModal(type)
    \/ cancelButton
    \/ \E value \in FormTypes : setFormType(value)
    \/ \E value \in TitleTexts : setTitle(value)
    \/ \E value \in DescriptionTexts : setDescription(value)
    \/ \E value \in ModelNameTexts : setModelName(value)
    \/ \E value \in ShortTexts : setModelProvider(value)
    \/ handleSubmit
    \/ \E r \in InFlight(createReqs) : serverCreate(r)
    \/ \E r \in InFlight(createReqs) : handleSubmitFeedbackCreated(r)
    \/ \E r \in InFlight(createReqs), err \in ApiErrors :
          handleSubmitFeedbackRejected(r, err)

SpecGate == InitGate /\ [][NextGate]_vars

(* ---------------------------------------------------------------------- *)
(* Specification of the submission form: the type switch and the fields   *)
(* that it resets or keeps, up to the settling of the create request      *)
(* ---------------------------------------------------------------------- *)
InitForm ==
    InitWith({TRUE}, {Cardinality(ItemIds)}, {"all"}, {"all"}, {"all"}, {"recent"})

NextForm ==
    \/ \E type \in FormTypes : handleOpenModal(type)
    \/ cancelButton
    \/ \E value \in FormTypes : setFormType(value)
    \/ \E value \in ValidTitles : setTitle(value)
    \/ \E value \in ValidDescriptions : setDescription(value)
    \/ \E value \in ShortTexts : setModelProvider(value)
    \/ \E value \in ShortTexts : setName(value)
    \/ \E key \in MetaKeys, value \in ShortTexts : updateMeta(key, value)
    \/ \E value \in ShortTexts : setReferenceUrl(value)
    \/ \E value \in EnvironmentChoices : setEnvironment(value)
    \/ \E value \in AttachmentLists : setFileAttachments(value)
    \/ handleSubmit
    \/ \E r \in InFlight(createReqs) : serverCreate(r)
    \/ \E r \in InFlight(createReqs) : handleSubmitFeedbackCreated(r)
    \/ \E r \in InFlight(createReqs), err \in ApiErrors :
          handleSubmitFeedbackRejected(r, err)

SpecForm == InitForm /\ [][NextForm]_vars

(* handleSubmitFeedback has been called and has not returned *)
SubmissionRunning == submitAwait # NULL

CreateIssued == BagCardinality(createReqs') > BagCardinality(createReqs)

(* the gate as the claim words it, for a given reading of "model name or  *)
(* model provider is non-empty"                                           *)
Gate(modelFilled) ==
    /\ ~SubmissionRunning
    /\ Len(Trim(form.title)) >= TITLE_MIN
    /\ Len(Trim(form.description)) >= DESC_MIN
    /\ form.formType = "model_request" => modelFilled

GateAgrees(modelFilled) == showModal => (canSubmit <=> Gate(modelFilled))

ValidationGate(modelFilled) ==
    /\ GateAgrees(modelFilled)
    /\ GateAgrees(modelFilled)'
    /\ CreateIssued => (showModal /\ Gate(modelFilled))
    /\ (/\ lastControl' = "submit"
        /\ lastControl # "submit"
        /\ ~Gate(modelFilled)) =>
          UNCHANGED <<createReqs, isSubmitting, submitAwait, submitError,
                      form, showModal, listReqs, summaryReqs>>

C18_TypeSwitchClears ==
    [][(showModal /\ showModal' /\ form'.formType # form.formType) =>
          /\ \A key \in MetaKeys : form'.meta[key] = <<>>
          /\ form'.referenceUrl = <<>>
          /\ form'.fileAttachments = <<>>
          /\ form'.title = form.title
          /\ form'.description = form.description
          /\ form'.name = form.name
          /\ form'.email = form.email]_vars

(* the dialog was opened for a model request, the type was switched away   *)
(* and back: the metadata is empty, the title typed and the name erased    *)
(* before are kept                                                         *)
C18_Witness ==
    /\ showModal
    /\ lastControl = "formType"
    /\ modalType = "model_request"
    /\ form.formType = "model_request"
    /\ \A key \in MetaKeys : form.meta[key] = <<>>
    /\ form.title # <<>>
    /\ form.name = <<>>
    /\ form.email # <<>>

(* the create request of the running submission settled without the      *)
(* success toast: api.createFeedback rejected                             *)
CreateFailed ==
    /\ BagCardinality(createReqs') < BagCardinality(createReqs)
    /\ toastId' = toastId

(* the error banner of the dialog *)
ErrorBanner == IF showModal /\ submitError # NULL THEN submitError ELSE NULL

(* C21: the step in which the create request fails leaves the dialog open  *)
(* with the message of a failure stored and shown in its banner, leaves    *)
(* every field of the form as it was, issues no list or summary fetch and  *)
(* clears the submitting flag, so that the submit control is enabled again *)
(* if the fields are valid.                                                *)
C21_FailureKeepsForm ==
    [][CreateFailed =>
          /\ showModal /\ showModal'
          /\ submitError' \in {parseApiError(err) : err \in ApiErrors}
          /\ ErrorBanner' = submitError'
          /\ form' = form
          /\ listReqs' = listReqs
          /\ summaryReqs' = summaryReqs
          /\ isSubmitting /\ ~isSubmitting'
          /\ ~SubmissionRunning'
          /\ canSubmit' <=> Gate(~modelInfoRequired)']_vars

(* a model request with a reference link and an attachment whose           *)
(* environment was set to "not specified" was rejected: the banner shows   *)
(* the message and the fields hold what was entered                        *)
C21_Witness ==
    /\ ErrorBanner = "invalid"
    /\ ~isSubmitting
    /\ createReqs = EmptyBag
    /\ toastId = 0
    /\ form.formType = "model_request"
    /\ Len(Trim(form.title)) >= TITLE_MIN
    /\ Len(Trim(form.description)) >= DESC_MIN
    /\ form.modelName = <<>> /\ form.modelProvider # <<>>
    /\ \A key \in MetaKeys : form.meta[key] # <<>>
    /\ form.referenceUrl # <<>>
    /\ form.fileAttachments # <<>>
    /\ form.environment = ""
    /\ form.name = <<>> /\ form.email # <<>>
    /\ canSubmit

(* ---------------------------------------------------------------------- *)
(* Specification of the create payload: the fields of the form that the   *)
(* payload's metadata and attachments are built from, up to the settling  *)
(* of the create request                                                  *)
(* ---------------------------------------------------------------------- *)
InitPayload ==
    InitWith({TRUE}, {Cardinality(ItemIds)}, {"all"}, {"all"}, {"all"}, {"recent"})

NextPayload ==
    \/ handleOpenModal("bug_report")
    \/ cancelButton
    \/ \E value \in FormTypes : setFormType(value)
    \/ \E value \in ValidTitles : setTitle(value)
    \/ \E value \in ValidDescriptions : setDescription(value)
    \/ \E value \in ShortTexts : setModelProvider(value)
    \/ \E key \in MetaKeys, value \in DraftTexts : updateMeta(key, value)
    \/ \E value \in DraftTexts : setReferenceUrl(value)
    \/ \E value \in AttachmentLists : setFileAttachments(value)
    \/ handleSubmit
    \/ \E r \in InFlight(createReqs) : serverCreate(r)
    \/ \E r \in InFlight(createReqs) : handleSubmitFeedbackCreated(r)
    \/ \E r \in InFlight(createReqs), err \in ApiErrors :
          handleSubmitFeedbackRejected(r, err)

SpecPayload == InitPayload /\ [][NextPayload]_vars

(* the metadata fields of the form with a non-blank value *)
FilledMeta == {key \in MetaKeys : Trim(form.meta[key]) # <<>>}

(* payload is what the claim says of the form's attachments, reference    *)
(* link and metadata                                                      *)
PayloadAsSpecified(payload) ==
    LET files == Len(form.fileAttachments)
        link == Trim(form.referenceUrl) # <<>>
        merged == files + (IF link THEN 1 ELSE 0)
    IN  /\ "attachments" \in DOMAIN payload <=> merged > 0
        /\ "attachments" \in DOMAIN payload =>
              /\ Len(payload.attachments) = merged
              /\ SubSeq(payload.attachments, 1, files) = form.fileAttachments
              /\ \A k \in 1..files : payload.attachments[k].storage # "link"
              /\ link =>
                    /\ payload.attachments[merged].id = ""
                    /\ payload.attachments[merged].size = 0
                    /\ payload.attachments[merged].storage = "link"
        /\ "metadata" \in DOMAIN payload <=> FilledMeta # {}
        /\ "metadata" \in DOMAIN payload =>
              DOMAIN payload.metadata = FilledMeta

(* C22: the payload of every create request issued holds the form's        *)
(* uploaded attachments followed by one link attachment (id empty, size 0, *)
(* storage "link") exactly when the trimmed reference link is non-empty,   *)
(* has no attachments key when that list is empty, and has a metadata map  *)
(* of exactly the metadata fields with a non-blank value, or no metadata   *)
(* key when there is none.                                                 *)
C22_PayloadMerge ==
    [][CreateIssued =>
          \A r \in InFlight(createReqs') :
              CopiesIn(r, createReqs') > CopiesIn(r, createReqs) =>
                  PayloadAsSpecified(r.payload)]_vars

(* a bug report sent with a blank reference link, no file and no metadata: *)
(* the payload has neither key                                             *)
C22_Witness_Bare ==
    \E r \in InFlight(createReqs) :
        /\ r.payload.type = "bug_report"
        /\ form.referenceUrl = <<" ">>
        /\ DOMAIN r.payload = {"type", "title", "description", "user_email",
                                "user_name", "environment"}

(* a model request in flight whose payload holds the uploaded file, then   *)
(* the link, and the trimmed use case                                      *)
C22_Witness ==
    \E r \in InFlight(createReqs) :
        /\ r.payload.type = "model_request"
        /\ {"attachments", "metadata"} \subseteq DOMAIN r.payload
        /\ Len(r.payload.attachments) = 2
        /\ r.payload.attachments[1] = UploadedMeta(File("f1", GoodFile))
        /\ r.payload.attachments[2] = LinkAttachment(<<"x">>)
        /\ r.payload.metadata = [use_case |-> <<"x">>]
        /\ form.meta["use_case"] = <<" ", "x">>

(* ---------------------------------------------------------------------- *)
(* Specification of the submission of a feature request with the list     *)
(* and summary synchroniser (signed-in user, filters at their defaults)   *)
(* ---------------------------------------------------------------------- *)
InitSubmit ==
    InitWith({TRUE}, {Cardinality(ItemIds)}, {"all"}, {"all"}, {"all"}, {"recent"})

NextSubmit ==
    \/ handleOpenModal("feature_request")
    \/ escapeKey
    \/ handleOverlayClick
    \/ closeButton
    \/ cancelButton
    \/ \E value \in TitleTexts : setTitle(value)
    \/ \E value \in DescriptionTexts : setDescription(value)
    \/ handleSubmit
    \/ \E r \in InFlight(createReqs) : serverCreate(r)
    \/ \E r \in InFlight(createReqs) : handleSubmitFeedbackCreated(r)
    \/ \E r \in InFlight(createReqs), err \in ApiErrors :
          handleSubmitFeedbackRejected(r, err)
    \/ \E r \in InFlight(listReqs) : handleSubmitFeedbackListResolved(r)
    \/ \E r \in InFlight(listReqs) : handleSubmitFeedbackListRejected(r)
    \/ \E data \in {"loaded", NULL} : handleSubmitFeedbackSummarySettled(data)
    \/ \E r \in InFlight(listReqs) : serverList(r)
    \/ \E r \in InFlight(listReqs) : fetchListResolved(r)
    \/ \E r \in InFlight(listReqs) : fetchListRejected(r)

SpecSubmit == InitSubmit /\ [][NextSubmit]_vars

CreateSucceeded ==
    /\ BagCardinality(createReqs') < BagCardinality(createReqs)
    /\ toastId' = toastId + 1

OpenWhileCreating == createReqs # EmptyBag => (showModal /\ isSubmitting)

(* C19: while a create request is in flight the dialog is shown and the    *)
(* submitting flag set; the dialog closes only with no create request in   *)
(* flight or in the step in which the request succeeds; at most one create *)
(* request is in flight.                                                   *)
C19_OpenWhileInFlight ==
    [][/\ OpenWhileCreating
       /\ OpenWhileCreating'
       /\ BagCardinality(createReqs') <= 1
       /\ (showModal /\ ~showModal') =>
             (createReqs = EmptyBag \/ CreateSucceeded)]_vars

(* the server has stored the item, the request is still in flight and the  *)
(* dialog is shown                                                         *)
C19_Witness ==
    /\ \E r \in InFlight(createReqs) : r.applied
    /\ showModal
    /\ isSubmitting
    /\ lastControl = "submit"

SubmitListIssued ==
    CopiesIn(AwaitedListReq("submit"), listReqs')
        > CopiesIn(AwaitedListReq("submit"), listReqs)
SubmitListSettled ==
    \E r \in InFlight(listReqs) :
        Awaiter(r) = "submit" /\ listReqs' = listReqs (-) One(r)

(* C20: the step in which the create request succeeds closes the dialog,   *)
(* pushes a success toast and issues a list fetch; the step in which that  *)
(* list fetch settles issues a summary fetch.                              *)
C20_SuccessClosesAndRefetches ==
    [][/\ CreateSucceeded =>
             /\ showModal
             /\ ~showModal'
             /\ toasts' = Append(toasts, [id |-> toastId + 1,
                                          message |-> "Feedback submitted",
                                          variant |-> "success"])
             /\ SubmitListIssued
             /\ isLoading'
       /\ SubmitListIssued => CreateSucceeded
       /\ SubmitListSettled => summaryReqs' = summaryReqs + 1]_vars

(* a submission succeeded: the dialog is closed, the toast shown, the list *)
(* refetch has landed with the new total and the summary refetch is in     *)
(* flight                                                                  *)
C20_Witness ==
    /\ HasToast("Feedback submitted")
    /\ ~showModal
    /\ submitAwait = "summary"
    /\ listTotal = Cardinality(ItemIds) + 1
    /\ summaryReqs > 1

(* the refetches that follow a successful create *)
SubmitListFailed == SubmitListSettled /\ toastId' = toastId + 1
SubmitSummaryFailed ==
    submitAwait = "summary" /\ submitAwait' = NULL /\ summary' = NULL

(* a refetch failure leaves the submission committed: the dialog and the   *)
(* submission error are untouched and the toasts in the queue stay         *)
Committed ==
    /\ UNCHANGED <<showModal, submitError>>
    /\ SubSeq(toasts', 1, Len(toasts)) = toasts

(* the failure is reported: one error toast is pushed *)
ReportedOnItsOwn ==
    /\ Len(toasts') = Len(toasts) + 1
    /\ toasts'[Len(toasts')].variant = "error"

(* C32 (as claimed): the step in which the list refetch or the summary     *)
(* refetch of a successful submission fails leaves the dialog, the         *)
(* submission error and the queued toasts as they were and pushes an error *)
(* toast of its own.                                                       *)
C32_RefetchFailureReported ==
    [][(SubmitListFailed \/ SubmitSummaryFailed) =>
          (Committed /\ ReportedOnItsOwn)]_vars

(* C32 (as the code behaves): both failures leave the submission           *)
(* committed; the list failure pushes an error toast, the summary failure  *)
(* pushes none and clears the summary.                                     *)
C32_SummaryFailureSilent ==
    [][/\ SubmitListFailed => (Committed /\ ReportedOnItsOwn)
       /\ SubmitSummaryFailed => (Committed /\ toasts' = toasts)]_vars

(* the submission succeeded, its summary refetch failed, and the only      *)
(* toast is the success toast                                              *)
C32_Witness_Silent ==
    /\ submitAwait = NULL
    /\ ~isSubmitting
    /\ summary = NULL
    /\ summaryReqs = 1
    /\ ~showModal
    /\ submitError = NULL
    /\ Len(toasts) = 1
    /\ toasts[1].message = "Feedback submitted"

(* the validation gate of the form's fields *)
FieldsValid ==
    /\ Len(Trim(form.title)) >= TITLE_MIN
    /\ Len(Trim(form.description)) >= DESC_MIN
    /\ ~modelInfoRequired

(* C35 (as claimed): the submitting flag is set exactly while a create     *)
(* request is in flight, and a dialog shown with no create request in      *)
(* flight has its submit control enabled exactly when the fields are       *)
(* valid.                                                                  *)
C35_SubmittingWhileCreating ==
    /\ isSubmitting <=> createReqs # EmptyBag
    /\ (showModal /\ createReqs = EmptyBag) => (canSubmit <=> FieldsValid)

(* what the code keeps: the flag is set from the call of                   *)
(* handleSubmitFeedback until its finally block, after both refetches      *)
C35_SubmittingUntilRefetched == isSubmitting <=> SubmissionRunning

(* the create request succeeded and closed the dialog; the user reopened   *)
(* it and filled it in while the list refetch is pending: the flag is      *)
(* still set and the submit control disabled                               *)
C35_Witness_Locked ==
    /\ showModal
    /\ createReqs = EmptyBag
    /\ submitAwait = "list"
    /\ isSubmitting
    /\ FieldsValid
    /\ ~canSubmit

(* ---------------------------------------------------------------------- *)
(* Specification of a type switch during uploads: files are dropped on a  *)
(* bug report, the Type select is moved to feature request, and the       *)
(* uploads settle on either side of the switch                            *)
(* ---------------------------------------------------------------------- *)
InitSwitch == InitSettle

NextSwitch ==
    \/ handleOpenModal("bug_report")
    \/ /\ showModal
       /\ form.formType = "bug_report"
       /\ \E shapes \in ValidBatches : handleDrop(shapes)
    \/ /\ showModal
       /\ form.formType = "bug_report"
       /\ setFormType("feature_request")
    \/ \E upload \in uploads : \E k \in 1..Len(upload.files) :
          uploadAttachmentResolved(upload, k)
    \/ \E upload \in uploads : \E k \in 1..Len(upload.files) :
          \E err \in UploadFailures : uploadAttachmentRejected(upload, k, err)
    \/ cleanupTick
    \/ cleanupTimeout

SpecSwitch == InitSwitch /\ [][NextSwitch]_vars

(* the type was switched and no file was added since: here files are added *)
(* under the bug report type only                                          *)
SwitchedAway == showModal /\ form.formType = "feature_request"

(* C38 (as claimed): after a type switch the attachment list stays empty   *)
(* until files are added under the new type; a batch started before the    *)
(* switch that settles after it adds nothing to the list.                  *)
C38_EmptyAfterSwitch == SwitchedAway => form.fileAttachments = <<>>

(* what the code does: the switch itself empties the list, and a batch     *)
(* that settles after it with a fulfilled upload puts back the list of the *)
(* render it was started in, followed by its fulfilled uploads             *)
C38_SwitchClearsThenSettleRestores ==
    [][/\ form'.formType # form.formType /\ showModal =>
             form'.fileAttachments = <<>>
       /\ SwitchedAway =>
             \A u \in uploads : BatchSettled(u) =>
                 SettledOnto(u, u.attachments)]_vars

(* after the switch, with no upload in flight, files uploaded under the    *)
(* bug report type are attached to the feature request                     *)
C38_Witness_Restored ==
    /\ SwitchedAway
    /\ uploads = {}
    /\ form.fileAttachments # <<>>

(* ---------------------------------------------------------------------- *)
(* Specification of the attachment limit: batches of valid files started  *)
(* by drop and by the file chooser, uploads that succeed or fail,         *)
(* removals and the clean-up timeout, in any interleaving                 *)
(* ---------------------------------------------------------------------- *)
InitLimit == InitSettle

NextLimit ==
    \/ handleOpenModal("bug_report")
    \/ \E shapes \in ValidBatches : handleDrop(shapes)
    \/ handleClick
    \/ \E shapes \in Choices : handleFileChange(shapes)
    \/ \E id \in UsedIds : removeAttachment(id)
    \/ \E upload \in uploads : \E k \in 1..Len(upload.files) :
          uploadAttachmentResolved(upload, k)
    \/ \E upload \in uploads : \E k \in 1..Len(upload.files) :
          \E err \in UploadFailures : uploadAttachmentRejected(upload, k, err)
    \/ cleanupTick
    \/ cleanupTimeout

SpecLimit == InitLimit /\ [][NextLimit]_vars

(* C39: in every reachable state the attachment list of the submission     *)
(* holds at most MAX_FILES entries, and every batch in flight fits in the  *)
(* room left by the list it was started with.                              *)
C39_AtMostMaxFiles ==
    /\ showModal => Len(form.fileAttachments) <= MAX_FILES
    /\ \A u \in uploads : Len(u.attachments) + Len(u.files) <= MAX_FILES

(* the list is full after a batch that was cut to the room left *)
C39_Witness ==
    /\ showModal
    /\ Len(form.fileAttachments) = MAX_FILES
    /\ uploads = {}
    /\ uploadCall.shapes = <<GoodFile, GoodFile>>
    /\ Len(pending) = 1
    /\ pending[1].status = "done"

(* ---------------------------------------------------------------------- *)
(* Account page (AccountPage): the session list and its revoke buttons    *)
(* ---------------------------------------------------------------------- *)
MaxRevokes == 2     \* revoke calls in flight and banner timeouts armed
MessageMs == 5000

boardVars == <<user, dataVars, isLoading, filterVars, searchVars, page,
               upvoteLoadingId, toastVars, listReqs, summaryReqs, voteReqs,
               serverVars, lastControl, discussionVars, modalVars, uploadVars>>

(* the sessions of the signed-in user, in the order the server lists them; *)
(* the first is the one of this browser                                    *)
SessionIds == <<"s1", "s2", "s3">>
CurrentSession == SessionIds[1]
SessionInfo(id) == [id |-> id, is_current |-> id = CurrentSession]
ProfileData == [name |-> <<"x">>, email |-> <<"x">>]

(* api.getSessions(): the sessions that are live on the server *)
SessionsData ==
    LET live == SelectSeq(SessionIds, LAMBDA id : id \in serverSessions)
    IN  [k \in 1..Len(live) |-> SessionInfo(live[k])]

(* useState initialisers of AccountPage, and the fetchProfile of its mount *)
(* effect in flight                                                        *)
AccountAtMount ==
    AccountState(NoSessions, TRUE, 1, {SessionIds[k] : k \in 1..Len(SessionIds)})

(* showMessage: the banner is set and a timeout of 5000 ms is armed *)
showMessage(type, text) ==
    /\ accountMessage' = [type |-> type, text |-> text]
    /\ messageTimers' = messageTimers (+) One(0)

(* Promise.all([api.getProfile(), api.getSessions()]) resolved *)
fetchProfileResolved ==
    /\ profileReqs > 0
    /\ profileReqs' = profileReqs - 1
    /\ profile' = ProfileData
    /\ editName' = ProfileData.name
    /\ sessions' = SessionsData
    /\ loading' = FALSE
    /\ UNCHANGED <<accountMessage, messageTimers, revokeReqs, serverSessions,
                   revoked, boardVars>>

(* one of the two calls rejected *)
fetchProfileRejected ==
    /\ profileReqs > 0
    /\ profileReqs' = profileReqs - 1
    /\ showMessage("error", "Failed to load profile")
    /\ loading' = FALSE
    /\ UNCHANGED <<sessions, profile, editName, revokeReqs, serverSessions,
                   revoked, boardVars>>

(* the revoke button is rendered for every listed session but the current  *)
(* one, once the page has loaded                                           *)
RevokeShown(sessionId) ==
    /\ ~loading
    /\ \E k \in 1..Len(sessions) :
          sessions[k].id = sessionId /\ ~sessions[k].is_current

(* sessions.filter((s) => s.id !== sessionId) *)
WithoutSession(list, sessionId) == SelectSeq(list, LAMBDA x : x.id # sessionId)

(* the call started by a click: it keeps the sessions of the render of the *)
(* click                                                                   *)
NewRevokeReq(sessionId) ==
    [id |-> sessionId, sessions |-> sessions, served |-> "none"]

(* a click on the revoke button of a session: up to the await *)
handleRevokeSession(sessionId) ==
    /\ RevokeShown(sessionId)
    /\ BagCardinality(revokeReqs) + BagCardinality(messageTimers) < MaxRevokes
    /\ revokeReqs' = revokeReqs (+) One(NewRevokeReq(sessionId))
    /\ UNCHANGED <<sessions, profile, editName, loading, accountMessage,
                   messageTimers, profileReqs, serverSessions, revoked,
                   boardVars>>

(* the server handles a revoke call: the session is revoked when it is     *)
(* live, and the call fails when it is not                                 *)
serverRevoke(r) ==
    /\ r \in InFlight(revokeReqs)
    /\ r.served = "none"
    /\ serverSessions' = serverSessions \ {r.id}
    /\ revokeReqs' = (revokeReqs (-) One(r))
                        (+) One([r EXCEPT !.served =
                                   IF r.id \in serverSessions THEN "ok"
                                   ELSE "failed"])
    /\ UNCHANGED <<sessions, profile, editName, loading, accountMessage,
                   messageTimers, profileReqs, revoked, boardVars>>

(* handleRevokeSession after the await: api.revokeSession resolved *)
handleRevokeSessionResolved(r) ==
    /\ r \in InFlight(revokeReqs)
    /\ r.served = "ok"
    /\ revokeReqs' = revokeReqs (-) One(r)
    /\ sessions' = WithoutSession(r.sessions, r.id)
    /\ showMessage("success", "Session revoked")
    /\ revoked' = revoked \cup {r.id}
    /\ UNCHANGED <<profile, editName, loading, profileReqs, serverSessions,
                   boardVars>>

(* api.revokeSession rejected: the call never reached the server, or the   *)
(* server refused it                                                       *)
handleRevokeSessionRejected(r) ==
    /\ r \in InFlight(revokeReqs)
    /\ r.served # "ok"
    /\ revokeReqs' = revokeReqs (-) One(r)
    /\ showMessage("error", "Failed to revoke session")
    /\ UNCHANGED <<sessions, profile, editName, loading, profileReqs,
                   serverSessions, revoked, boardVars>>

(* the delay of the armed banner timeouts passes *)
messageTick ==
    /\ messageTimers # EmptyBag
    /\ CopiesIn(MessageMs, messageTimers) = 0
    /\ messageTimers' = BagOfAll(LAMBDA t : MessageMs, messageTimers)
    /\ UNCHANGED <<sessions, profile, editName, loading, accountMessage,
                   profileReqs, revokeReqs, serverSessions, revoked,
                   boardVars>>

(* the callback of setTimeout(() => setMessage(null), 5000) *)
messageTimeout ==
    /\ CopiesIn(MessageMs, messageTimers) > 0
    /\ messageTimers' = messageTimers (-) One(MessageMs)
    /\ accountMessage' = NULL
    /\ UNCHANGED <<sessions, profile, editName, loading, profileReqs,
                   revokeReqs, serverSessions, revoked, boardVars>>

InitAccount ==
    /\ BoardAtMount({TRUE}, {Cardinality(ItemIds)},
                    {"all"}, {"all"}, {"all"}, {"recent"})
    /\ DiscussionAtMount(NULL)
    /\ ModalAtMount
    /\ UploaderAtMount
    /\ AccountAtMount

NextAccount ==
    \/ fetchProfileResolved
    \/ fetchProfileRejected
    \/ \E k \in 1..Len(SessionIds) : handleRevokeSession(SessionIds[k])
    \/ \E r \in InFlight(revokeReqs) : serverRevoke(r)
    \/ \E r \in InFlight(revokeReqs) : handleRevokeSessionResolved(r)
    \/ \E r \in InFlight(revokeReqs) : handleRevokeSessionRejected(r)
    \/ messageTick
    \/ messageTimeout

SpecAccount == InitAccount /\ [][NextAccount]_vars

Listed(list) == {list[k].id : k \in 1..Len(list)}

(* C40 (as claimed): a session whose revoke call has succeeded is not in    *)
(* the displayed list again, whatever the order in which the revoke calls  *)
(* in flight settle; a step in which a revoke call fails leaves the list   *)
(* as it was.                                                              *)
C40_RevokedStaysGone == revoked \cap Listed(sessions) = {}

(* the half of it that the code keeps: a failed revoke call leaves the     *)
(* list as it was                                                          *)
C40_FailedRevokeKeepsList ==
    [][(\E r \in InFlight(revokeReqs) :
            /\ r.served # "ok"
            /\ revokeReqs' = revokeReqs (-) One(r))
          => sessions' = sessions]_vars

(* what the code does: a revoke call that succeeds displays the sessions   *)
(* of the render of its click without the revoked one                      *)
C40_ListOfTheClick ==
    [][\A r \in InFlight(revokeReqs) :
          (r.served = "ok" /\ revokeReqs' = revokeReqs (-) One(r))
              => sessions' = WithoutSession(r.sessions, r.id)]_vars

(* both other sessions were revoked with success, and one of them is       *)
(* listed                                                                  *)
C40_Witness_Relisted ==
    /\ Cardinality(revoked) = 2
    /\ revokeReqs = EmptyBag
    /\ Len(sessions) = 2
====
